---------------------------- MODULE Spec2Model ----------------------------
(***************************************************************************)
(* A model of the AOFlagger facade (src/interface/aoflagger.{h,cpp}), of   *)
(* the default-strategy builder (src/strategy/control/defaultstrategy.cpp) *)
(* and of the execution of a built action tree by AOFlagger::Run.          *)
(*                                                                         *)
(* Ten specifications share the variables below:                           *)
(*   SpecBuild      - AOFlagger::MakeStrategy on every telescope and flags *)
(*   SpecObjects    - the life of ImageSet objects (make, copy, assign...) *)
(*   SpecRun        - one client that makes an ImageSet, fills it and      *)
(*                    calls Run                                            *)
(*   SpecConcurrent - two client threads that do so on one shared Strategy *)
(*   SpecStatistical - a StatisticalFlagAction of any configuration, run   *)
(*                    on contaminated data that hold any flags             *)
(*   SpecSIR        - the SIR operator on any strip, applied repeatedly    *)
(*   SpecQuality    - QualityStatistics objects and two threads that call  *)
(*                    CollectStatistics on them                            *)
(*   SpecStrategies - the life of Strategy objects and of their holders    *)
(*   SpecClearFlags - a Run beside the same Run on the tree built with     *)
(*                    CLEAR_FLAGS                                          *)
(*   SpecWidget     - the zoom window of an ImageWidget under any zooms    *)
(* A specification leaves the variables of the others at their initial     *)
(* value.                                                                  *)
(***************************************************************************)
EXTENDS Integers, Sequences, FiniteSets, TLC

VARIABLES
    strategy,       \* the rfiStrategy tree held by the Strategy object (a node table), or NoStrategy
    strategyArgs,   \* the arguments of the MakeStrategy call that built it
    imageSets,      \* ImageSet objects: slot -> NoObject or the ImageSetData (images: handles)
    imageHeap,      \* Image2D objects: handle -> NoObject or [width, height, pixels]
    lastCall,       \* the last facade call on an ImageSet and whether it threw
    run,            \* per client thread: the position and the locals of its MakeImageSet/Run calls
    plotCounters,   \* the accumulating side output the Plot action adds to
    alone,          \* per client thread: the same Run call taken alone, or on another tree
    sir,            \* a strip under the SIR operator: the strip, the ratio, the results so far
    statistics,     \* QualityStatistics objects, their shared implementations, the threads collecting
    strategies,     \* Strategy objects of the facade and the StrategyData holders they point to
    widget          \* the zoom window of an ImageWidget

vars == <<strategy, strategyArgs, imageSets, imageHeap, lastCall, run, plotCounters, alone,
          sir, statistics, strategies, widget>>

buildVars == <<strategy, strategyArgs>>
objectVars == <<imageSets, imageHeap, lastCall>>
runVars == <<run, plotCounters, alone>>
otherVars == <<sir, statistics, strategies, widget>>

NoStrategy == <<>>
NoObject == [none |-> TRUE]

-----------------------------------------------------------------------------
(* Bounds of the model *)

\* strategy flag words are the unsigned values below 2^MaxFlagBits
MaxFlagBits == 10

\* the ImageSet objects a client of SpecObjects holds at one time
MaxImageSets == 2

\* the image counts a client asks MakeImageSet for are 0 .. MaxCount
MaxCount == 9

\* the client of SpecRun calls Run again until the plot counters stand at MaxPlots
MaxPlots == 2

\* the enlarge sizes of a StatisticalFlagAction are 0 .. MaxEnlarge
MaxEnlarge == 1

\* the strips the SIR operator is applied to have at most MaxStrip samples
MaxStrip == 5

\* the SIR operator is applied to a strip at most MaxApplications times in a row
MaxApplications == 2

\* the QualityStatistics objects a client holds at one time
MaxStatistics == 2

\* a StatisticsCollection takes the rows of at most MaxRows CollectStatistics calls
MaxRows == 2

\* the Strategy objects a client holds at one time
MaxStrategies == 2

\* the StrategyData holders allocated in a behaviour
MaxHolders == 3

\* the deletions of one holder that are followed
MaxDeletes == 2

\* the bits of the significand of the floating-point numbers of the
\* ImageWidget (a double has 53)
MantissaBits == 4

\* the smallest positive floating-point number is 2^-SmallestExponent (that
\* of a double is 2^-1074)
SmallestExponent == 6

-----------------------------------------------------------------------------
(* enum TelescopeId, aoflagger.h:24-33 *)

GENERIC_TELESCOPE == 0
LOFAR_TELESCOPE == 1
MWA_TELESCOPE == 2
WSRT_TELESCOPE == 3
TelescopeIds == {GENERIC_TELESCOPE, LOFAR_TELESCOPE, MWA_TELESCOPE, WSRT_TELESCOPE}

(* StrategyFlags, aoflagger.cpp:24-34 *)
NONE == 0
LOW_FREQUENCY == 1
HIGH_FREQUENCY == 2
TRANSIENTS == 4
ROBUST == 8
FAST == 16
OFF_AXIS_SOURCES == 32
UNSENSITIVE == 64
SENSITIVE == 128
GUI_FRIENDLY == 256
CLEAR_FLAGS == 512

(* The builder reads StrategyFlags::LARGE_BANDWIDTH and ::SMALL_BANDWIDTH      *)
(* (defaultstrategy.cpp:31-32), which the facade under src/ does not define:  *)
(* their values are those of the specification's table of flag bits.          *)
LARGE_BANDWIDTH == 4
SMALL_BANDWIDTH == 8

(* MWA_TELESCOPE of the builder's own telescope enum, which Strategy::Strategy  *)
(* reaches by a cast of the facade's TelescopeId (aoflagger.cpp:147); the      *)
(* builder's header is not among the sources, the specification lists the     *)
(* telescopes in the facade's order.                                           *)
DS_MWA_TELESCOPE == 2

(* DefaultStrategy::FLAG_*, defaultstrategy.cpp:27-41 *)
FLAG_LARGE_BANDWIDTH == LARGE_BANDWIDTH
FLAG_SMALL_BANDWIDTH == SMALL_BANDWIDTH
FLAG_TRANSIENTS == TRANSIENTS
FLAG_ROBUST == ROBUST
FLAG_GUI_FRIENDLY == GUI_FRIENDLY
FLAG_CLEAR_FLAGS == CLEAR_FLAGS

RECURSIVE Pow2(_)
Pow2(n) == IF n = 0 THEN 1 ELSE 2 * Pow2(n - 1)

FlagWords == 0 .. (Pow2(MaxFlagBits) - 1)

\* the C++ operator & on two unsigned values
RECURSIVE BitAnd(_, _)
BitAnd(a, b) ==
    IF a = 0 \/ b = 0 THEN 0
    ELSE (IF a % 2 = 1 /\ b % 2 = 1 THEN 1 ELSE 0) + 2 * BitAnd(a \div 2, b \div 2)

\* the C++ operator | on two unsigned values
RECURSIVE BitOr(_, _)
BitOr(a, b) ==
    IF a = 0 THEN b
    ELSE IF b = 0 THEN a
    ELSE (IF a % 2 = 1 \/ b % 2 = 1 THEN 1 ELSE 0) + 2 * BitOr(a \div 2, b \div 2)

-----------------------------------------------------------------------------
(* The action tree.  The builder makes actions with new and links them     *)
(* through ActionBlock::Add on pointers; the model keeps the actions in a  *)
(* table in the order of their creation, an action's place in the table    *)
(* being its pointer.  Entry 1 is the block the builder is given.          *)

\* a value the builder left as the action's constructor made it, where
\* neither the sources at hand nor the specification give the constructor's value
ConstructorDefault == 0 - 1

\* the actions as their constructors make them
NewAction(kind) ==
    CASE kind = "Strategy" -> [kind |-> kind, children |-> <<>>]
      [] kind = "SetImageAction" -> [kind |-> kind, children |-> <<>>, newImage |-> "FromOriginal"]
      [] kind = "SetFlaggingAction" -> [kind |-> kind, children |-> <<>>, newFlagging |-> "None"]
      [] kind = "ForEachPolarisationBlock" -> [kind |-> kind, children |-> <<>>]
      [] kind = "ForEachComplexComponentAction" ->
            [kind |-> kind, children |-> <<>>,
             onAmplitude |-> FALSE, onPhase |-> FALSE, onReal |-> TRUE, onImaginary |-> TRUE,
             restoreFromAmplitude |-> FALSE]
      [] kind = "IterationBlock" ->
            [kind |-> kind, children |-> <<>>,
             iterationCount |-> ConstructorDefault, sensitivityStart |-> ConstructorDefault]
      [] kind = "SumThresholdAction" ->
            [kind |-> kind, children |-> <<>>,
             baseSensitivity |-> 1, timeDirectionFlagging |-> TRUE, frequencyDirectionFlagging |-> TRUE]
      [] kind = "CombineFlagResults" -> [kind |-> kind, children |-> <<>>]
      [] kind = "FrequencySelectionAction" -> [kind |-> kind, children |-> <<>>]
      [] kind = "TimeSelectionAction" -> [kind |-> kind, children |-> <<>>]
      [] kind = "ChangeResolutionAction" ->
            [kind |-> kind, children |-> <<>>,
             timeDecreaseFactor |-> ConstructorDefault, frequencyDecreaseFactor |-> ConstructorDefault]
      [] kind = "HighPassFilterAction" ->
            [kind |-> kind, children |-> <<>>,
             windowWidth |-> ConstructorDefault, windowHeight |-> ConstructorDefault,
             hKernelSigmaSqTenths |-> ConstructorDefault, vKernelSigmaSqTenths |-> ConstructorDefault,
             mode |-> "StoreRevised"]
      [] kind = "CalibratePassbandAction" -> [kind |-> kind, children |-> <<>>]
      [] kind = "PlotAction" -> [kind |-> kind, children |-> <<>>, plotKind |-> "FrequencyPowerPlot"]
      [] kind = "StatisticalFlagAction" ->
            [kind |-> kind, children |-> <<>>,
             enlargeTimeSize |-> 0, enlargeFrequencySize |-> 0,
             minimumGoodTimeRatioTenths |-> 2, minimumGoodFrequencyRatioTenths |-> 2]
      [] kind = "BaselineSelectionAction" -> [kind |-> kind, children |-> <<>>, preparationStep |-> FALSE]

\* new X(): the table with the new action appended; its pointer is Len of the result
New(tree, kind) == Append(tree, NewAction(kind))

\* a setter call on the action at pointer p
Set(tree, p, field, value) == [tree EXCEPT ![p] = [@ EXCEPT ![field] = value]]

\* an Add that puts the child in front of the block's children
AddFirst(tree, p, child) == [tree EXCEPT ![p].children = <<child>> \o @]

\* ActionBlock::Add(child) on the block at pointer p
Add(tree, p, child) == [tree EXCEPT ![p].children = Append(@, child)]

\* new X() followed by block->Add of it
AddNew(tree, p, kind) == Add(New(tree, kind), p, Len(tree) + 1)


-----------------------------------------------------------------------------
(* DefaultStrategy, defaultstrategy.cpp *)

\* (flags & flag) != 0
HasFlag(flags, flag) == BitAnd(flags, flag) # 0

\* a builder that calibrates the passband for MWA only when LARGE_BANDWIDTH is set too
CalPassbandBothNeeded(telescopeId, flags) ==
    telescopeId = DS_MWA_TELESCOPE /\ BitAnd(flags, FLAG_LARGE_BANDWIDTH) # 0

\* LoadStrategy, lines 52-56
CalPassband(telescopeId, flags) ==
    (telescopeId = DS_MWA_TELESCOPE /\ BitAnd(flags, FLAG_SMALL_BANDWIDTH) = 0)
    \/ BitAnd(flags, FLAG_LARGE_BANDWIDTH) # 0

\* a builder that reads keepTransients from the ROBUST bit
KeepTransientsOnRobust(flags) == BitAnd(flags, FLAG_ROBUST) # 0

\* a builder that compares the flag word with FLAG_TRANSIENTS instead of masking it
KeepTransientsExact(flags) == flags = FLAG_TRANSIENTS

\* LoadStrategy, line 57
KeepTransients(flags) == BitAnd(flags, FLAG_TRANSIENTS) # 0

\* a builder whose clearFlags leaves GUI_FRIENDLY out
ClearFlagsOnlyOnClear(flags) == BitAnd(flags, FLAG_CLEAR_FLAGS) # 0

\* LoadStrategy, lines 58-60
ClearFlags(flags) ==
    BitAnd(flags, FLAG_CLEAR_FLAGS) # 0 \/ BitAnd(flags, FLAG_GUI_FRIENDLY) # 0

\* a builder that resets the contaminated data on CLEAR_FLAGS instead of GUI_FRIENDLY
ResetContaminatedOnClear(flags) == BitAnd(flags, FLAG_CLEAR_FLAGS) # 0

\* LoadStrategy, lines 61-62
ResetContaminated(flags) == BitAnd(flags, FLAG_GUI_FRIENDLY) # 0

\* a builder that makes one iteration when FAST is set
IterationCountFast(flags) ==
    IF BitAnd(flags, FAST) # 0 THEN 1 ELSE IF BitAnd(flags, FLAG_ROBUST) = 0 THEN 2 ELSE 4

\* LoadStrategy, line 63
IterationCount(flags) == IF BitAnd(flags, FLAG_ROBUST) = 0 THEN 2 ELSE 4

\* a builder that raises 2 to the iteration count, not to its half
SensitivityStartWholeCount(iterationCount) == 2 * Pow2(iterationCount)

\* 2.0 * pow(2.0, iterationCount/2.0), line 92.  iterationCount is 2 or 4 on
\* every path from LoadStrategy, so the exponent is a whole number and the
\* product is exact in a double; an odd count would leave a remainder, which
\* the model refuses rather than rounds.
SensitivityStart(iterationCount) ==
    IF iterationCount % 2 = 0 THEN 2 * Pow2(iterationCount \div 2) ELSE ConstructorDefault

\* lines 72-94: the head of the tree down to the iteration block.  Each new
\* object gets the next pointer of the tree it is created in.
LoadHead(tree, block, iterationCount, resetContaminated) ==
    LET Components(c) ==
            LET fepBlock == Len(c)
                focAction == Len(c) + 1
                iteration == Len(c) + 2
                d == New(c, "ForEachComplexComponentAction")
                e == Set(Set(Set(Set(Set(d, focAction, "onAmplitude", TRUE),
                                         focAction, "onImaginary", FALSE),
                                     focAction, "onReal", FALSE),
                                 focAction, "onPhase", FALSE),
                         focAction, "restoreFromAmplitude", FALSE)
                f == Add(e, fepBlock, focAction)
                g == New(f, "IterationBlock")
                h == Set(Set(g, iteration, "iterationCount", iterationCount),
                         iteration, "sensitivityStart", SensitivityStart(iterationCount))
            IN  [tree |-> Add(h, focAction, iteration),
                 focAction |-> focAction, iteration |-> iteration]
        a == IF resetContaminated THEN AddNew(tree, block, "SetImageAction") ELSE tree
        b == AddNew(a, block, "SetFlaggingAction")
    IN  Components(AddNew(b, block, "ForEachPolarisationBlock"))

\* lines 96-146: the children of the iteration block
LoadIteration(tree, current, keepTransients) ==
    LET SumThreshold(a) ==
            LET t1 == Len(a) + 1
                b == Set(New(a, "SumThresholdAction"), t1, "baseSensitivity", 1)
                c == IF keepTransients
                     THEN Set(b, t1, "frequencyDirectionFlagging", FALSE)
                     ELSE b
            IN  Add(c, current, t1)
        Combine(d) ==
            LET cfr1 == Len(d) + 1
                e == AddNew(d, current, "CombineFlagResults")
                f == AddNew(e, cfr1, "FrequencySelectionAction")
            IN  IF ~keepTransients THEN AddNew(f, cfr1, "TimeSelectionAction") ELSE f
        ChangeResolution(h) ==
            LET changeResAction == Len(h) + 1
                hpAction == Len(h) + 2
                i == New(h, "ChangeResolutionAction")
                j == IF keepTransients
                     THEN Set(i, changeResAction, "timeDecreaseFactor", 1)
                     ELSE Set(i, changeResAction, "timeDecreaseFactor", 3)
                k == Set(j, changeResAction, "frequencyDecreaseFactor", 3)
                l == New(k, "HighPassFilterAction")
                m == IF keepTransients
                     THEN Set(l, hpAction, "windowWidth", 1)
                     ELSE Set(Set(l, hpAction, "hKernelSigmaSqTenths", 25),
                              hpAction, "windowWidth", 21)
                n == Set(Set(Set(m, hpAction, "vKernelSigmaSqTenths", 50),
                             hpAction, "windowHeight", 31),
                         hpAction, "mode", "StoreRevised")
                o == Add(n, changeResAction, hpAction)
            IN  Add(o, current, changeResAction)
    IN  ChangeResolution(AddNew(Combine(SumThreshold(tree)), current, "SetImageAction"))

\* lines 148-191: what follows the iteration block
LoadTail(tree, block, focAction, keepTransients, calPassband, clearFlags) ==
    LET SumThreshold(a) ==
            LET t2 == Len(a) + 1
                b == New(a, "SumThresholdAction")
                c == IF keepTransients
                     THEN Set(b, t2, "frequencyDirectionFlagging", FALSE)
                     ELSE b
            IN  Add(c, focAction, t2)
        Plot(d) ==
            LET plotPolarizationStatistics == Len(d) + 1
                e == New(d, "PlotAction")
            IN  Add(Set(e, plotPolarizationStatistics, "plotKind", "PolarizationStatisticsPlot"),
                    block, plotPolarizationStatistics)
        SetFlags(f) ==
            LET setFlagsInAllPolarizations == Len(f) + 1
                g == New(f, "SetFlaggingAction")
            IN  Add(Set(g, setFlagsInAllPolarizations, "newFlagging", "PolarisationsEqual"),
                    block, setFlagsInAllPolarizations)
        \* pedantic is false, line 169
        Selections(h) ==
            LET i == AddNew(h, block, "StatisticalFlagAction")
            IN  IF ~keepTransients THEN AddNew(i, block, "TimeSelectionAction") ELSE i
        Baseline(j) ==
            LET baselineSelection == Len(j) + 1
                k == New(j, "BaselineSelectionAction")
            IN  Add(Set(k, baselineSelection, "preparationStep", TRUE), block, baselineSelection)
        OrOriginals(l) ==
            LET orWithOriginals == Len(l) + 1
                m == New(l, "SetFlaggingAction")
            IN  IF ~clearFlags
                THEN Add(Set(m, orWithOriginals, "newFlagging", "OrOriginal"),
                         block, orWithOriginals)
                ELSE l
        a == IF calPassband THEN AddNew(tree, focAction, "CalibratePassbandAction") ELSE tree
    IN  OrOriginals(Baseline(Selections(SetFlags(Plot(SumThreshold(a))))))

\* LoadSingleStrategy, lines 68-192
LoadSingleStrategy(tree, block, iterationCount, keepTransients, calPassband, clearFlags, resetContaminated) ==
    LET Rest(head) ==
            LoadTail(LoadIteration(head.tree, head.iteration, keepTransients),
                     block, head.focAction, keepTransients, calPassband, clearFlags)
    IN  Rest(LoadHead(tree, block, iterationCount, resetContaminated))

\* LoadStrategy, lines 50-66: frequency, timeRes and frequencyRes are not read
LoadStrategy(tree, block, telescopeId, flags, frequency, timeRes, frequencyRes) ==
    LoadSingleStrategy(tree, block, IterationCount(flags), KeepTransients(flags),
                       CalPassband(telescopeId, flags), ClearFlags(flags), ResetContaminated(flags))

\* CreateStrategy, lines 43-48: new Strategy() is the root block, pointer 1
CreateStrategy(telescopeId, flags, frequency, timeRes, frequencyRes) ==
    LoadStrategy(New(<<>>, "Strategy"), 1, telescopeId, flags, frequency, timeRes, frequencyRes)

Root == 1

-----------------------------------------------------------------------------
(* Reading a tree *)

Nodes(tree) == 1 .. Len(tree)
NodesOfKind(tree, kind) == {n \in Nodes(tree) : tree[n].kind = kind}
ChildKinds(tree, p) == [i \in 1 .. Len(tree[p].children) |-> tree[tree[p].children[i]].kind]
Parent(tree, n) == CHOOSE p \in Nodes(tree) : \E i \in 1 .. Len(tree[p].children) : tree[p].children[i] = n
\* the place of n among the children of p (0 when it is not one)
IndexIn(tree, p, n) ==
    IF \E i \in 1 .. Len(tree[p].children) : tree[p].children[i] = n
    THEN CHOOSE i \in 1 .. Len(tree[p].children) : tree[p].children[i] = n
    ELSE 0


-----------------------------------------------------------------------------
(* The facade's Strategy, aoflagger.cpp:145-153 and 311-314 *)

\* the C cast (rfiStrategy::DefaultStrategy::DefaultStrategyId) telescopeId keeps the number
CastTelescopeId(telescopeId) == telescopeId

\* Strategy::Strategy: CreateStrategy is called with four arguments, so timeRes
\* arrives as the builder's frequency and frequencyRes as its timeRes; the
\* builder's frequencyRes takes its default, 0.0
StrategyCtor(telescopeId, strategyFlags, frequency, timeRes, frequencyRes) ==
    CreateStrategy(CastTelescopeId(telescopeId), strategyFlags, timeRes, frequencyRes, 0)

\* the resolutions and frequencies a client passes (0 = unknown)
Resolutions == {0, 1}

AllStrategyArgs ==
    [telescopeId : TelescopeIds, strategyFlags : FlagWords,
     frequency : Resolutions, timeRes : Resolutions, frequencyRes : Resolutions]

\* AOFlagger::MakeStrategy, the one Strategy of the model
MakeStrategy(argSet) ==
    /\ strategy = NoStrategy
    /\ \E a \in argSet :
          /\ strategy' = StrategyCtor(a.telescopeId, a.strategyFlags, a.frequency, a.timeRes, a.frequencyRes)
          /\ strategyArgs' = a

\* the tree as MakeStrategy built it, before any Run
BuiltTree ==
    StrategyCtor(strategyArgs.telescopeId, strategyArgs.strategyFlags,
                 strategyArgs.frequency, strategyArgs.timeRes, strategyArgs.frequencyRes)

InitBuildVars ==
    /\ strategy = NoStrategy
    /\ strategyArgs = NoObject


-----------------------------------------------------------------------------
(* Images and ImageSet objects, aoflagger.cpp:37-122 and 301-309 *)

\* the widths and heights of the images of SpecObjects
Sizes == {<<1, 1>>, <<2, 1>>}
\* the pixel values a client writes or initialises with
ClientValues == {0, 1}

Pixels(width, height) == (0 .. (width - 1)) \X (0 .. (height - 1))

\* Image2D::CreateSetImagePtr(width, height, initialValue)
CreateSetImage(width, height, initialValue) ==
    [width |-> width, height |-> height, pixels |-> [p \in Pixels(width, height) |-> initialValue]]

\* an assertValidCount that takes every count from 1 to 8
ValidCountUpTo8(count) == count >= 1 /\ count <= 8

\* an assertValidCount that refuses only a count of nought
ValidCountNonZero(count) == count # 0

\* ImageSet::assertValidCount, lines 88-92: TRUE when it does not throw
ValidCount(count) == ~(count # 1 /\ count # 2 /\ count # 4 /\ count # 8)

Slots == 1 .. MaxImageSets
Handles == 1 .. (8 * MaxImageSets)
Live(s) == imageSets[s] # NoObject

Range(seq) == {seq[i] : i \in 1 .. Len(seq)}

\* the handles the live ImageSets hold, in the order of the slots
RECURSIVE HeldFrom(_, _)
HeldFrom(sets, s) ==
    IF s > MaxImageSets THEN <<>>
    ELSE (IF sets[s] = NoObject THEN <<>> ELSE sets[s].images) \o HeldFrom(sets, s + 1)

RECURSIVE Dedupe(_, _)
Dedupe(seq, seen) ==
    IF seq = <<>> THEN <<>>
    ELSE IF Head(seq) \in seen THEN Dedupe(Tail(seq), seen)
    ELSE <<Head(seq)>> \o Dedupe(Tail(seq), seen \cup {Head(seq)})

PositionIn(seq, h) == CHOOSE i \in 1 .. Len(seq) : seq[i] = h

\* Image2DPtr is a shared pointer: an image no ImageSet refers to is destroyed.
\* A handle is a name only, so the heap is kept with the live images named in
\* the order in which the slots hold them.
Settle(sets, heap) ==
    \E order \in {Dedupe(HeldFrom(sets, 1), {})} :
        /\ imageSets' = [s \in Slots |->
                            IF sets[s] = NoObject THEN NoObject
                            ELSE [images |-> [i \in 1 .. Len(sets[s].images) |->
                                                  PositionIn(order, sets[s].images[i])]]]
        /\ imageHeap' = [h \in Handles |-> IF h <= Len(order) THEN heap[order[h]] ELSE NoObject]

\* count handles that are free in a heap, lowest first
RECURSIVE FreeHandles(_, _, _)
FreeHandles(heap, from, n) ==
    IF n = 0 THEN <<>>
    ELSE IF heap[from] = NoObject THEN <<from>> \o FreeHandles(heap, from + 1, n - 1)
    ELSE FreeHandles(heap, from + 1, n)

\* ImageSet::ImageCount, Width, Height (lines 104-117)
ImageCount(s) == Len(imageSets[s].images)
Width(s) == imageHeap[imageSets[s].images[1]].width
Height(s) == imageHeap[imageSets[s].images[1]].height

\* what lastCall keeps of a call that is not MakeImageSet: none of them throws
Called(op) == [op |-> "other", slot |-> 0, count |-> 0, threw |-> FALSE]

\* ImageSet::ImageSet(width, height, count[, initialValue]), lines 56-70, reached
\* through AOFlagger::MakeImageSet (301-309).  The ImageSetData is allocated
\* before assertValidCount throws; no ImageSet comes to exist then.  The
\* overload without initialValue leaves the pixels unset: the model gives
\* them any one client value.
ImageSetCtor(s, width, height, count, initialValue) ==
    IF ~ValidCount(count)
    THEN /\ lastCall' = [op |-> "MakeImageSet", slot |-> s, count |-> count, threw |-> TRUE]
         /\ UNCHANGED <<imageSets, imageHeap>>
    ELSE \E hs \in {FreeHandles(imageHeap, 1, count)} :
             /\ Settle([imageSets EXCEPT ![s] = [images |-> hs]],
                       [h \in Handles |->
                           IF h \in Range(hs) THEN CreateSetImage(width, height, initialValue)
                           ELSE imageHeap[h]])
             /\ lastCall' = [op |-> "MakeImageSet", slot |-> s, count |-> count, threw |-> FALSE]

MakeImageSet(s) ==
    /\ ~Live(s)
    /\ \E size \in Sizes, count \in 0 .. MaxCount, initialValue \in ClientValues :
          ImageSetCtor(s, size[1], size[2], count, initialValue)
    /\ UNCHANGED <<buildVars, runVars, otherVars>>

\* a copy constructor that makes images of its own with the pixels of the source
CopyImageSetDeep(dst, src) ==
    /\ ~Live(dst) /\ Live(src)
    /\ \E hs \in {FreeHandles(imageHeap, 1, ImageCount(src))} :
          Settle([imageSets EXCEPT ![dst] = [images |-> hs]],
                 [h \in Handles |->
                     IF h \in Range(hs) THEN imageHeap[imageSets[src].images[PositionIn(hs, h)]]
                     ELSE imageHeap[h]])
    /\ lastCall' = Called("CopyImageSet")
    /\ UNCHANGED <<buildVars, runVars, otherVars>>

\* ImageSet::ImageSet(const ImageSet&), lines 72-75: a new ImageSetData with a copy of the handles
CopyImageSet(dst, src) ==
    /\ ~Live(dst) /\ Live(src)
    /\ Settle([imageSets EXCEPT ![dst] = [images |-> imageSets[src].images]], imageHeap)
    /\ lastCall' = Called("CopyImageSet")
    /\ UNCHANGED <<buildVars, runVars, otherVars>>

\* ImageSet::operator=, lines 82-86: the handles of the source replace those of the target
AssignImageSet(dst, src) ==
    /\ Live(dst) /\ Live(src)
    /\ Settle([imageSets EXCEPT ![dst] = [images |-> imageSets[src].images]], imageHeap)
    /\ lastCall' = Called("AssignImageSet")
    /\ UNCHANGED <<buildVars, runVars, otherVars>>

\* ImageSet::~ImageSet, lines 77-80
DestroyImageSet(s) ==
    /\ Live(s)
    /\ Settle([imageSets EXCEPT ![s] = NoObject], imageHeap)
    /\ lastCall' = Called("DestroyImageSet")
    /\ UNCHANGED <<buildVars, runVars, otherVars>>

\* a client's write through ImageSet::ImageBuffer(imageIndex), lines 94-97; the
\* model's clients write the first pixel of the last image of a set
WritePixel(s) ==
    /\ Live(s)
    /\ \E i \in {ImageCount(s)}, v \in ClientValues :
          LET h == imageSets[s].images[i]
              p == <<0, 0>>
          IN  /\ imageHeap[h].pixels[p] # v
              /\ imageHeap' = [imageHeap EXCEPT ![h].pixels[p] = v]
    /\ lastCall' = Called("WritePixel")
    /\ UNCHANGED <<imageSets, buildVars, runVars, otherVars>>

InitObjectVars ==
    /\ imageSets = [s \in Slots |-> NoObject]
    /\ imageHeap = [h \in Handles |-> NoObject]
    /\ lastCall = [op |-> "none", slot |-> 0, count |-> 0, threw |-> FALSE]


-----------------------------------------------------------------------------
(* Client threads and the data of a Run call.  A thread's record holds the *)
(* objects of its own calls: its ImageSet, the images and masks its Run    *)
(* allocates (a sequence each, an object's place being its pointer), the   *)
(* ArtifactSet, and the stack of the blocks being performed.               *)

\* the two concurrent callers of Run
Threads == {1, 2}

NotStarted ==
    [pc |-> "start", count |-> 0, width |-> 0, height |-> 0, input |-> <<>>,
     imgs |-> <<>>, msks |-> <<>>, art |-> NoObject, stack |-> <<>>, entry |-> NoObject,
     performs |-> 0, listener |-> <<>>, result |-> NoObject, error |-> NoObject,
     beside |-> FALSE, pass |-> <<>>, rounds |-> <<>>]

InitRunVars ==
    /\ run = [t \in Threads |-> NotStarted]
    /\ plotCounters = 0
    /\ alone = [t \in Threads |-> NoObject]

\* the data a client fills its images with: a level of 1 all over the first
\* image, one strong sample in the first image, or a weak broadband row in
\* the last image
Patterns == {"level", "spike", "burst"}

ZeroPixels(width, height) == [p \in Pixels(width, height) |-> 0]

Fill(images, pattern) ==
    CASE pattern = "level" -> [images EXCEPT ![1] = [p \in DOMAIN @ |-> 1]]
      [] pattern = "spike" -> [images EXCEPT ![1][<<0, 0>>] = 8]
      [] pattern = "burst" ->
            [images EXCEPT ![Len(images)] = [p \in DOMAIN @ |-> IF p[2] = 0 THEN 3 ELSE 0]]

\* TimeFrequencyData: the kind of content, the image pointers and the mask pointers
TimeFrequencyData(kind, images, masks) == [kind |-> kind, images |-> images, masks |-> masks]

\* TimeFrequencyData(), the default constructor
EmptyData == TimeFrequencyData("Empty", <<>>, <<>>)

PolarisationCount(data) ==
    CASE data.kind = "AutoDipole" -> 2
      [] data.kind = "Dipole" -> 4
      [] OTHER -> 1

\* the part of the data that belongs to polarisation p: its images and its mask
Slice(data, p) ==
    TimeFrequencyData(
        IF data.kind = "Amplitude" THEN "Amplitude" ELSE "Complex",
        IF data.kind = "Amplitude" THEN data.images
        ELSE IF Len(data.images) >= 2 * p THEN <<data.images[2 * p - 1], data.images[2 * p]>>
        ELSE <<>>,
        IF Len(data.masks) >= p THEN <<data.masks[p]>> ELSE data.masks)

\* TimeFrequencyData::GetSingleMask as a set of flagged samples: the one mask,
\* or the samples flagged in any of the masks
SingleMask(r, data) == UNION {r.msks[data.masks[i]] : i \in 1 .. Len(data.masks)}

FirstImage(r, data) ==
    IF data.images = <<>> THEN ZeroPixels(r.width, r.height) ELSE r.imgs[data.images[1]]

Isqrt(n) == CHOOSE k \in 0 .. n : k * k <= n /\ (k + 1) * (k + 1) > n

\* the amplitude of a complex sample, rounded down
AmplitudePixels(re, im) == [p \in DOMAIN re |-> Isqrt(re[p] * re[p] + im[p] * im[p])]

RECURSIVE SumOver(_, _)
SumOver(f, S) ==
    IF S = {} THEN 0
    ELSE LET p == CHOOSE q \in S : TRUE IN f[p] + SumOver(f, S \ {p})

\* Image2D and Mask2D objects made during Run
NewImage(r, pixels) == [r EXCEPT !.imgs = Append(@, pixels)]
NewMask(r, flags) == [r EXCEPT !.msks = Append(@, flags)]

\* TimeFrequencyData::SetGlobalMask with a new mask object, on the contaminated data
SetNewGlobalMask(r, flags) ==
    [r EXCEPT !.msks = Append(@, flags), !.art.contaminated.masks = <<Len(r.msks) + 1>>]

\* the original data as the active block exposes it: all of it, one
\* polarisation of it, or the amplitude of one polarisation.  The result is
\* the record after the allocation of an amplitude image where one is needed,
\* with the exposed data in field seen.
ExposeOriginal(r) ==
    LET view == r.art.view
        part == IF view.pol = 0 THEN r.art.original ELSE Slice(r.art.original, view.pol)
    IN  IF view.amplitude /\ part.kind = "Complex" /\ Len(part.images) = 2
        THEN [r |-> NewImage(r, AmplitudePixels(r.imgs[part.images[1]], r.imgs[part.images[2]])),
              seen |-> TimeFrequencyData("Amplitude", <<Len(r.imgs) + 1>>, part.masks)]
        ELSE [r |-> r, seen |-> part]

-----------------------------------------------------------------------------
(* The actions without children.  Each takes the thread's record and the   *)
(* action and gives the record after Perform.  StatisticalFlagAction is    *)
(* under src/; the others follow the specification's account of them.      *)

\* SetImageAction, FromOriginal: contaminated.image <- original.image
SetImagePerform(r, action) ==
    LET exposed == ExposeOriginal(r)
    IN  [exposed.r EXCEPT !.art.contaminated.images = exposed.seen.images]

\* SetFlaggingAction: None clears, PolarisationsEqual gives every polarisation
\* the OR of all, OrOriginal ORs the original's flags in.  The result is a
\* new mask object held at every place of the contaminated data.
SetFlaggingPerform(r, action) ==
    LET data == r.art.contaminated
        flags == CASE action.newFlagging = "None" -> {}
                   [] action.newFlagging = "PolarisationsEqual" -> SingleMask(r, data)
                   [] action.newFlagging = "OrOriginal" ->
                        SingleMask(r, data) \cup SingleMask(r, r.art.original)
    IN  [r EXCEPT !.msks = Append(@, flags),
                  !.art.contaminated.masks = [i \in 1 .. Len(data.masks) |-> Len(r.msks) + 1]]

\* the windows of two neighbouring samples along the time axis (rows) or
\* along the frequency axis (columns)
Windows(width, height, alongTime) ==
    IF alongTime
    THEN {{<<x, y>>, <<x + 1, y>>} : x \in 0 .. (width - 2), y \in 0 .. (height - 1)}
    ELSE {{<<x, y>>, <<x, y + 1>>} : x \in 0 .. (width - 1), y \in 0 .. (height - 2)}

\* SumThreshold on every strip of one direction, for the lengths 1 and 2
\* that fit the images of the model: a window is flagged when the mean of its
\* unmasked samples exceeds threshold * 1.5^(-log2 L); length 2 sees the
\* flags of length 1.  The flags found are the result.
SumThresholdPass(image, width, height, masked, threshold, alongTime) ==
    LET one == {p \in Pixels(width, height) \ masked : image[p] > threshold}
        seen == masked \cup one
        two == UNION {w \in Windows(width, height, alongTime) :
                        /\ w \ seen # {}
                        /\ 3 * SumOver(image, w \ seen) > 2 * threshold * Cardinality(w \ seen)}
    IN  one \cup two

\* SumThresholdAction: the threshold is baseSensitivity * noise * sensitivity,
\* the noise level of the residual being the unit of the pixel values
SumThresholdPerform(r, action) ==
    LET data == r.art.contaminated
        image == FirstImage(r, data)
        masked == SingleMask(r, data)
        threshold == action.baseSensitivity * r.art.sensitivity
        inTime == IF action.timeDirectionFlagging
                  THEN SumThresholdPass(image, r.width, r.height, masked, threshold, TRUE) ELSE {}
        inFrequency == IF action.frequencyDirectionFlagging
                       THEN SumThresholdPass(image, r.width, r.height, masked, threshold, FALSE) ELSE {}
    IN  SetNewGlobalMask(r, masked \cup inTime \cup inFrequency)

\* the strips (columns when byTime, rows otherwise) whose mean over the
\* unmasked samples lies more than three standard deviations of the strips'
\* means above their mean; with fewer than ten strips Winsorization clips nothing
RejectedStrips(image, width, height, masked, byTime) ==
    LET strips == IF byTime THEN 0 .. (width - 1) ELSE 0 .. (height - 1)
        n == Cardinality(strips)
        inStrip(s) == {p \in Pixels(width, height) \ masked : (IF byTime THEN p[1] ELSE p[2]) = s}
        mean == [s \in strips |-> IF inStrip(s) = {} THEN 0
                                  ELSE SumOver(image, inStrip(s)) \div Cardinality(inStrip(s))]
        d == [s \in strips |-> n * mean[s] - SumOver(mean, strips)]
        squares == [s \in strips |-> d[s] * d[s]]
    IN  {s \in strips : d[s] > 0 /\ n * d[s] * d[s] > 9 * SumOver(squares, strips)}

\* TimeSelectionAction (byTime) and FrequencySelectionAction: flag whole strips
SelectionPerform(r, action) ==
    LET data == r.art.contaminated
        masked == SingleMask(r, data)
        byTime == action.kind = "TimeSelectionAction"
        rejected == RejectedStrips(FirstImage(r, data), r.width, r.height, masked, byTime)
    IN  SetNewGlobalMask(r, masked \cup
            {p \in Pixels(r.width, r.height) : (IF byTime THEN p[1] ELSE p[2]) \in rejected})

\* the samples of the window of the high-pass filter around p; the Gaussian
\* weights are all taken as one
FilterWindow(p, width, height, windowWidth, windowHeight) ==
    {q \in Pixels(width, height) :
        /\ 2 * (IF q[1] > p[1] THEN q[1] - p[1] ELSE p[1] - q[1]) < windowWidth
        /\ 2 * (IF q[2] > p[2] THEN q[2] - p[2] ELSE p[2] - q[2]) < windowHeight}

\* the background R: the mean of the unmasked samples of the window, or 0
Background(image, width, height, masked, windowWidth, windowHeight) ==
    [p \in Pixels(width, height) |->
        LET used == FilterWindow(p, width, height, windowWidth, windowHeight) \ masked
        IN  IF used = {} THEN 0 ELSE SumOver(image, used) \div Cardinality(used)]

\* HighPassFilterAction, StoreRevised: revised <- R, contaminated image <- I - R
HighPassFilterPerform(r, action) ==
    LET data == r.art.contaminated
        image == FirstImage(r, data)
        fit == Background(image, r.width, r.height, SingleMask(r, data),
                          action.windowWidth, action.windowHeight)
        n == Len(r.imgs)
    IN  [r EXCEPT !.imgs = @ \o <<fit, [p \in DOMAIN image |-> image[p] - fit[p]]>>,
                  !.art.revised.images = <<n + 1>>,
                  !.art.contaminated.images = <<n + 2>>]

\* CalibratePassbandAction and BaselineSelectionAction (preparation step)
\* read the data and leave the images and the masks as they are
NoMaskEffect(r, action) == r

\* TimeFrequencyData::SetGlobalMask on one slot of the artifacts: the slot
\* holds the given mask object as its one mask from then on
SetGlobalMaskOf(r, slot, mask) == [r EXCEPT !.art[slot].masks = <<mask>>]

\* StatisticalFlagger::DilateFlags: a sample is flagged iff a sample within
\* timeSize columns and frequencySize rows of it is
DilateFlags(flags, width, height, timeSize, frequencySize) ==
    {p \in Pixels(width, height) :
        \E q \in flags :
            /\ q[1] - p[1] <= timeSize /\ p[1] - q[1] <= timeSize
            /\ q[2] - p[2] <= frequencySize /\ p[2] - q[2] <= frequencySize}

\* an operator that asks for more than the ratio of flagged samples
SIRStripAboveRatio(strip, ratioTenths) ==
    [i \in 1 .. Len(strip) |->
        \E a \in 1 .. i, b \in i .. Len(strip) :
            10 * Cardinality({k \in a .. b : strip[k]}) > ratioTenths * (b - a + 1)]

\* the SIR operator on one strip: sample i is flagged iff an interval a..b
\* around it has at least the ratio (in tenths) of its samples flagged
SIRStrip(strip, ratioTenths) ==
    [i \in 1 .. Len(strip) |->
        \E a \in 1 .. i, b \in i .. Len(strip) :
            10 * Cardinality({k \in a .. b : strip[k]}) >= ratioTenths * (b - a + 1)]

\* SIROperator::OperateHorizontally: every row of the mask is a strip
OperateHorizontally(flags, width, height, ratioTenths) ==
    {p \in Pixels(width, height) :
        SIRStrip([i \in 1 .. width |-> <<i - 1, p[2]>> \in flags], ratioTenths)[p[1] + 1]}

\* SIROperator::OperateVertically: every column of the mask is a strip
OperateVertically(flags, width, height, ratioTenths) ==
    {p \in Pixels(width, height) :
        SIRStrip([i \in 1 .. height |-> <<p[1], i - 1>> \in flags], ratioTenths)[p[2] + 1]}

\* a StatisticalFlagAction that takes the original data for the contaminated
StatisticalFlagPerformOnOriginal(r, action) ==
    LET mask == Len(r.msks) + 1
        copied == NewMask(r, SingleMask(r, r.art.original))
        dilated == [copied EXCEPT !.msks[mask] =
                        DilateFlags(@, r.width, r.height, action.enlargeTimeSize, action.enlargeFrequencySize)]
        rowsDone == [dilated EXCEPT !.msks[mask] =
                        OperateHorizontally(@, r.width, r.height, action.minimumGoodTimeRatioTenths)]
        columnsDone == [rowsDone EXCEPT !.msks[mask] =
                        OperateVertically(@, r.width, r.height, action.minimumGoodFrequencyRatioTenths)]
    IN  SetGlobalMaskOf(columnsDone, "original", mask)

\* a StatisticalFlagAction that passes the columns through the SIR operator before the rows
StatisticalFlagPerformColumnsFirst(r, action) ==
    LET mask == Len(r.msks) + 1
        copied == NewMask(r, SingleMask(r, r.art.contaminated))
        dilated == [copied EXCEPT !.msks[mask] =
                        DilateFlags(@, r.width, r.height, action.enlargeTimeSize, action.enlargeFrequencySize)]
        columnsDone == [dilated EXCEPT !.msks[mask] =
                        OperateVertically(@, r.width, r.height, action.minimumGoodFrequencyRatioTenths)]
        rowsDone == [columnsDone EXCEPT !.msks[mask] =
                        OperateHorizontally(@, r.width, r.height, action.minimumGoodTimeRatioTenths)]
    IN  SetGlobalMaskOf(rowsDone, "contaminated", mask)

\* a StatisticalFlagAction that works on the mask object the data hold, not on a copy
StatisticalFlagPerformInPlace(r, action) ==
    LET mask == r.art.contaminated.masks[1]
        dilated == [r EXCEPT !.msks[mask] =
                        DilateFlags(SingleMask(r, r.art.contaminated), r.width, r.height,
                                    action.enlargeTimeSize, action.enlargeFrequencySize)]
        rowsDone == [dilated EXCEPT !.msks[mask] =
                        OperateHorizontally(@, r.width, r.height, action.minimumGoodTimeRatioTenths)]
        columnsDone == [rowsDone EXCEPT !.msks[mask] =
                        OperateVertically(@, r.width, r.height, action.minimumGoodFrequencyRatioTenths)]
    IN  SetGlobalMaskOf(columnsDone, "contaminated", mask)

\* a StatisticalFlagAction that copies the first mask of the data, not their single mask
StatisticalFlagPerformFirstMask(r, action) ==
    LET mask == Len(r.msks) + 1
        copied == NewMask(r, r.msks[r.art.contaminated.masks[1]])
        dilated == [copied EXCEPT !.msks[mask] =
                        DilateFlags(@, r.width, r.height, action.enlargeTimeSize, action.enlargeFrequencySize)]
        rowsDone == [dilated EXCEPT !.msks[mask] =
                        OperateHorizontally(@, r.width, r.height, action.minimumGoodTimeRatioTenths)]
        columnsDone == [rowsDone EXCEPT !.msks[mask] =
                        OperateVertically(@, r.width, r.height, action.minimumGoodFrequencyRatioTenths)]
    IN  SetGlobalMaskOf(columnsDone, "contaminated", mask)

\* StatisticalFlagAction::Perform, statisticalflagaction.cpp:12-22: a copy of
\* the single mask is dilated, passed through the SIR operator along time and
\* along frequency, and set as the global mask of the contaminated data
StatisticalFlagPerform(r, action) ==
    LET data == r.art.contaminated
        mask == Len(r.msks) + 1
        copied == NewMask(r, SingleMask(r, data))
        dilated == [copied EXCEPT !.msks[mask] =
                        DilateFlags(@, r.width, r.height, action.enlargeTimeSize, action.enlargeFrequencySize)]
        rowsDone == [dilated EXCEPT !.msks[mask] =
                        OperateHorizontally(@, r.width, r.height, action.minimumGoodTimeRatioTenths)]
        columnsDone == [rowsDone EXCEPT !.msks[mask] =
                        OperateVertically(@, r.width, r.height, action.minimumGoodFrequencyRatioTenths)]
    IN  SetGlobalMaskOf(columnsDone, "contaminated", mask)

\* Perform of an action without children, by its kind.  PlotAction is not
\* here: it takes the mutex and is performed in steps of its own.
PerformLeaf(r, action) ==
    CASE action.kind = "SetImageAction" -> SetImagePerform(r, action)
      [] action.kind = "SetFlaggingAction" -> SetFlaggingPerform(r, action)
      [] action.kind = "SumThresholdAction" -> SumThresholdPerform(r, action)
      [] action.kind = "FrequencySelectionAction" -> SelectionPerform(r, action)
      [] action.kind = "TimeSelectionAction" -> SelectionPerform(r, action)
      [] action.kind = "HighPassFilterAction" -> HighPassFilterPerform(r, action)
      [] action.kind = "StatisticalFlagAction" -> StatisticalFlagPerform(r, action)
      [] action.kind = "CalibratePassbandAction" -> NoMaskEffect(r, action)
      [] action.kind = "BaselineSelectionAction" -> NoMaskEffect(r, action)

BlockKinds ==
    {"Strategy", "ForEachPolarisationBlock", "ForEachComplexComponentAction",
     "IterationBlock", "CombineFlagResults", "ChangeResolutionAction"}

-----------------------------------------------------------------------------
(* The blocks.  A frame of the stack is a block being performed: its       *)
(* action, the child to perform next, the round of its loop and what its   *)
(* Perform keeps in local variables.                                       *)

Frame(node, next, round, saved) == [node |-> node, next |-> next, round |-> round, saved |-> saved]

Top(r) == r.stack[Len(r.stack)]
Push(r, frame) == [r EXCEPT !.stack = Append(@, frame)]
Pop(r) == [r EXCEPT !.stack = SubSeq(@, 1, Len(@) - 1)]

\* the slot's data as amplitudes: a complex pair becomes one new image
ToAmplitude(r, slot) ==
    LET data == r.art[slot]
    IN  IF data.kind = "Complex" /\ Len(data.images) = 2
        THEN [r EXCEPT !.imgs = Append(@, AmplitudePixels(r.imgs[data.images[1]], r.imgs[data.images[2]])),
                       !.art[slot] = TimeFrequencyData("Amplitude", <<Len(r.imgs) + 1>>, data.masks)]
        ELSE r

\* the image at a time and frequency resolution lowered by the two factors:
\* every sample holds the mean of its block
DecreaseResolution(image, width, height, timeFactor, frequencyFactor) ==
    [p \in Pixels(width, height) |->
        LET block == {q \in Pixels(width, height) :
                        /\ q[1] \div timeFactor = p[1] \div timeFactor
                        /\ q[2] \div frequencyFactor = p[2] \div frequencyFactor}
        IN  SumOver(image, block) \div Cardinality(block)]

\* an IterationBlock that keeps the running sensitivity in its own
\* sensitivityStart member, halving it after every round
SensitivityKeptInAction(tree, node, round) ==
    [value |-> tree[node].sensitivityStart,
     tree |-> [tree EXCEPT ![node].sensitivityStart = @ \div 2]]

\* IterationBlock: the sensitivity of round i is start * 2^(-i), computed
\* from the block's configuration and the local index; the tree is not written
IterationSensitivity(tree, node, round) ==
    [value |-> tree[node].sensitivityStart \div Pow2(round), tree |-> tree]

\* Perform of a block up to its first child.  The result is the record and the tree.
EnterBlock(r, tree, node) ==
    LET action == tree[node]
        art == r.art
        kept == [contaminated |-> art.contaminated, revised |-> art.revised, view |-> art.view]
    IN  CASE action.kind = "ForEachPolarisationBlock" ->
                [tree |-> tree,
                 r |-> [Push(r, Frame(node, 1, 1, kept))
                            EXCEPT !.art.contaminated = Slice(art.contaminated, 1),
                                   !.art.revised = Slice(art.revised, 1),
                                   !.art.view.pol = 1]]
          [] action.kind = "ForEachComplexComponentAction" ->
                [tree |-> tree,
                 r |-> [ToAmplitude(ToAmplitude(Push(r, Frame(node, 1, 1, kept)), "contaminated"), "revised")
                            EXCEPT !.art.view.amplitude = action.onAmplitude]]
          [] action.kind = "IterationBlock" ->
                IF action.iterationCount < 1
                THEN [tree |-> tree,
                      r |-> Push(r, Frame(node, Len(action.children) + 1, 0, [sensitivity |-> art.sensitivity]))]
                ELSE LET first == IterationSensitivity(tree, node, 0)
                     IN  [tree |-> first.tree,
                          r |-> [Push(r, Frame(node, 1, 0, [sensitivity |-> art.sensitivity]))
                                    EXCEPT !.art.sensitivity = first.value]]
          [] action.kind = "CombineFlagResults" ->
                [tree |-> tree,
                 r |-> Push(r, Frame(node, 1, 1, [masks |-> art.contaminated.masks, found |-> {}]))]
          [] action.kind = "ChangeResolutionAction" ->
                [tree |-> tree,
                 r |-> [Push(r, Frame(node, 1, 1, kept))
                            EXCEPT !.imgs = Append(@, DecreaseResolution(FirstImage(r, art.contaminated),
                                                        r.width, r.height,
                                                        action.timeDecreaseFactor, action.frequencyDecreaseFactor)),
                                   !.art.contaminated.images = <<Len(r.imgs) + 1>>]]

\* a child of the block on top of the stack has returned: CombineFlagResults
\* collects the flags the child found and gives the next child the mask the
\* block was entered with; every block goes on to its next child
ChildDone(r, tree) ==
    IF r.stack = <<>> THEN [r EXCEPT !.pc = "performed"]
    ELSE LET n == Len(r.stack)
         IN  IF tree[r.stack[n].node].kind = "CombineFlagResults"
             THEN [r EXCEPT !.stack[n].next = @ + 1,
                            !.stack[n].saved.found = @ \cup SingleMask(r, r.art.contaminated),
                            !.art.contaminated.masks = r.stack[n].saved.masks]
             ELSE [r EXCEPT !.stack[n].next = @ + 1]

\* the block on top of the stack has performed its last child: the next
\* round of its loop, or its return to the block that holds it
EndOfChildren(r, tree) ==
    LET frame == Top(r)
        node == frame.node
        action == tree[node]
        saved == frame.saved
        art == r.art
        n == Len(r.stack)
    IN  CASE action.kind = "Strategy" ->
                [tree |-> tree, r |-> ChildDone(Pop(r), tree)]
          [] action.kind = "ForEachPolarisationBlock" ->
                LET merged == IF art.contaminated.masks = <<>> THEN saved.contaminated
                              ELSE IF Len(saved.contaminated.masks) >= frame.round
                              THEN [saved.contaminated EXCEPT !.masks[frame.round] = art.contaminated.masks[1]]
                              ELSE [saved.contaminated EXCEPT !.masks = art.contaminated.masks]
                IN  IF frame.round < PolarisationCount(saved.contaminated)
                    THEN [tree |-> tree,
                          r |-> [r EXCEPT !.stack[n] = Frame(node, 1, frame.round + 1,
                                                             [saved EXCEPT !.contaminated = merged]),
                                          !.art.contaminated = Slice(merged, frame.round + 1),
                                          !.art.revised = Slice(saved.revised, frame.round + 1),
                                          !.art.view.pol = frame.round + 1]]
                    ELSE [tree |-> tree,
                          r |-> ChildDone([Pop(r) EXCEPT !.art.contaminated = merged,
                                                         !.art.revised = saved.revised,
                                                         !.art.view = saved.view], tree)]
          [] action.kind = "ForEachComplexComponentAction" ->
                [tree |-> tree,
                 r |-> ChildDone([Pop(r) EXCEPT !.art.contaminated =
                                                    [saved.contaminated EXCEPT !.masks = art.contaminated.masks],
                                                !.art.revised = saved.revised,
                                                !.art.view = saved.view], tree)]
          [] action.kind = "IterationBlock" ->
                IF frame.round + 1 < action.iterationCount
                THEN LET following == IterationSensitivity(tree, node, frame.round + 1)
                     IN  [tree |-> following.tree,
                          r |-> [r EXCEPT !.stack[n] = Frame(node, 1, frame.round + 1, saved),
                                          !.art.sensitivity = following.value]]
                ELSE [tree |-> tree,
                      r |-> ChildDone([Pop(r) EXCEPT !.art.sensitivity = saved.sensitivity], tree)]
          [] action.kind = "CombineFlagResults" ->
                [tree |-> tree,
                 r |-> ChildDone(Pop(SetNewGlobalMask(r, saved.found \cup SingleMask(r, art.contaminated))), tree)]
          [] action.kind = "ChangeResolutionAction" ->
                LET before == FirstImage(r, saved.contaminated)
                    fit == FirstImage(r, art.revised)
                IN  [tree |-> tree,
                     r |-> ChildDone([Pop(r) EXCEPT
                                !.imgs = Append(@, [p \in DOMAIN before |-> before[p] - fit[p]]),
                                !.art.contaminated = [saved.contaminated EXCEPT !.images = <<Len(r.imgs) + 1>>]],
                              tree)]

\* the action the thread performs next, or 0 at the end of the block on top
NextChild(r, tree) ==
    IF r.stack = <<>> THEN 0
    ELSE LET frame == Top(r)
         IN  IF frame.next <= Len(tree[frame.node].children)
             THEN tree[frame.node].children[frame.next] ELSE 0

\* an IterationBlock is among the blocks being performed
InIteration(r, tree) ==
    \E i \in 1 .. Len(r.stack) : tree[r.stack[i].node].kind = "IterationBlock"

\* the record of a step keeps in pass the actions without children performed
\* so far in the current round of the IterationBlock: a round begins with
\* none, and none are kept outside the block; it keeps in rounds the index and
\* the sensitivity each round of the IterationBlock began with
Noted(out, r, tree, child) ==
    [out EXCEPT !.r.pass =
        IF child = 0
        THEN (IF tree[Top(r).node].kind = "IterationBlock" THEN <<>> ELSE @)
        ELSE IF tree[child].kind = "IterationBlock" THEN <<>>
        ELSE IF tree[child].kind \notin BlockKinds /\ InIteration(r, tree)
        THEN Append(@, tree[child].kind)
        ELSE @,
              !.r.rounds =
        IF child = 0
        THEN (IF tree[Top(r).node].kind = "IterationBlock" /\ Len(out.r.stack) = Len(r.stack)
              THEN Append(@, [i |-> Top(out.r).round, sensitivity |-> out.r.art.sensitivity])
              ELSE @)
        ELSE IF tree[child].kind = "IterationBlock"
        THEN (IF tree[child].iterationCount < 1 THEN <<>>
              ELSE <<[i |-> 0, sensitivity |-> out.r.art.sensitivity]>>)
        ELSE @]

\* one step of Strategy::Perform for an action other than PlotAction
Step(r, tree) ==
    LET child == NextChild(r, tree)
    IN  Noted(IF child = 0 THEN EndOfChildren(r, tree)
              ELSE IF tree[child].kind \in BlockKinds THEN EnterBlock(r, tree, child)
              ELSE [tree |-> tree, r |-> ChildDone(PerformLeaf(r, tree[child]), tree)],
              r, tree, child)

AtPlot(r, tree) == NextChild(r, tree) # 0 /\ tree[NextChild(r, tree)].kind = "PlotAction"

-----------------------------------------------------------------------------
(* AOFlagger::MakeImageSet and AOFlagger::Run as a client thread calls them *)

\* the switch on input.ImageCount(), aoflagger.cpp:330-366: the data of the
\* given images (or of the zero image, for the revised data) under the one
\* mask; a count without a case leaves the default-constructed data
SwitchOnImageCount(count, images, mask) ==
    CASE count = 1 -> TimeFrequencyData("Amplitude", <<images[1]>>, <<mask>>)
      [] count = 2 -> TimeFrequencyData("Complex", <<images[1], images[2]>>, <<mask>>)
      [] count = 4 -> TimeFrequencyData("AutoDipole", [i \in 1 .. 4 |-> images[i]], <<mask, mask>>)
      [] count = 8 -> TimeFrequencyData("Dipole", [i \in 1 .. 8 |-> images[i]], <<mask, mask, mask, mask>>)
      [] OTHER -> EmptyData

\* a Run that hands the original data a mask of its own with every flag set
RunEnteredOriginalFlagged(r, t) ==
    LET mask == Len(r.msks) + 1
        zeroImage == Len(r.imgs) + 1
        inputData == SwitchOnImageCount(r.count, r.input, mask)
        revisedData == SwitchOnImageCount(r.count, [i \in 1 .. 8 |-> zeroImage], mask)
    IN  [r EXCEPT !.pc = "running",
                  !.msks = @ \o <<{}, Pixels(r.width, r.height)>>,
                  !.imgs = Append(@, ZeroPixels(r.width, r.height)),
                  !.art = [mutex |-> t, original |-> SwitchOnImageCount(r.count, r.input, mask + 1),
                           contaminated |-> inputData,
                           revised |-> revisedData, sensitivity |-> 1,
                           view |-> [pol |-> 0, amplitude |-> FALSE]],
                  !.entry = [data |-> inputData, images |-> [i \in 1 .. Len(r.input) |-> r.imgs[r.input[i]]],
                             mask |-> mask],
                  !.stack = <<Frame(Root, 1, 1, NoObject)>>,
                  !.pass = <<>>,
                  !.rounds = <<>>,
                  !.performs = @ + 1,
                  !.listener = <<>>, !.result = NoObject, !.error = NoObject]

\* Run, lines 323-371, down to the call of Perform on the root: the mutex is
\* a local of this call (its name in the model is the calling thread), the
\* listener is a DummyProgressListener, the one all-false mask is shared by
\* the original, the contaminated and the revised data
RunEntered(r, t) ==
    LET mask == Len(r.msks) + 1
        zeroImage == Len(r.imgs) + 1
        inputData == SwitchOnImageCount(r.count, r.input, mask)
        revisedData == SwitchOnImageCount(r.count, [i \in 1 .. 8 |-> zeroImage], mask)
    IN  [r EXCEPT !.pc = "running",
                  !.msks = Append(@, {}),
                  !.imgs = Append(@, ZeroPixels(r.width, r.height)),
                  !.art = [mutex |-> t, original |-> inputData, contaminated |-> inputData,
                           revised |-> revisedData, sensitivity |-> 1,
                           view |-> [pol |-> 0, amplitude |-> FALSE]],
                  !.entry = [data |-> inputData, images |-> [i \in 1 .. Len(r.input) |-> r.imgs[r.input[i]]],
                             mask |-> mask],
                  !.stack = <<Frame(Root, 1, 1, NoObject)>>,
                  !.pass = <<>>,
                  !.rounds = <<>>,
                  !.performs = @ + 1,
                  !.listener = <<>>, !.result = NoObject, !.error = NoObject]

\* a Run that hands back the flags of the original data
ExtractedFromOriginal(r) ==
    [r EXCEPT !.pc = "returned",
              !.msks = Append(@, SingleMask(r, r.art.original)),
              !.result = [mask |-> Len(r.msks) + 1, width |-> r.width, height |-> r.height]]

\* Run, lines 373-375: the FlagMask holds a copy of the contaminated data's single mask
Extracted(r) ==
    [r EXCEPT !.pc = "returned",
              !.msks = Append(@, SingleMask(r, r.art.contaminated)),
              !.result = [mask |-> Len(r.msks) + 1, width |-> r.width, height |-> r.height]]

\* a Run that catches what Perform throws, reports it to the listener and returns
Caught(r, action) ==
    [r EXCEPT !.pc = "returned",
              !.error = [raisedBy |-> action.kind],
              !.listener = Append(@, [error |-> action.kind])]

\* Run, line 371, when Perform throws: Run has no handler and its listener is
\* a dummy, so the exception leaves Run; the locals are destroyed, no
\* FlagMask is made
Thrown(r, action) ==
    [r EXCEPT !.pc = "threw", !.error = [raisedBy |-> action.kind]]

\* PlotAction: the lock on the artifacts' mutex is taken
PlotLocked(r) == [r EXCEPT !.pc = "plotting"]

\* PlotAction: the counters are updated, the lock is released, Perform returns
PlotDone(r, tree) == ChildDone([r EXCEPT !.pc = "running"], tree)

\* the mutex the thread's artifacts point to is held by a thread
MutexHeld(m) == \E u \in Threads : run[u].pc = "plotting" /\ run[u].art.mutex = m

\* AOFlagger::MakeImageSet(width, height, count, 0.0f) by thread t: the
\* constructor throws on a count that is not valid, and the client then has
\* no ImageSet to call Run with
ClientMakeImageSet(t, sizes, counts) ==
    /\ run[t].pc = "start"
    /\ \E size \in sizes, count \in counts :
          run' = [run EXCEPT ![t] =
                    IF ~ValidCount(count)
                    THEN [@ EXCEPT !.pc = "rejected", !.count = count,
                                   !.error = [raisedBy |-> "MakeImageSet"]]
                    ELSE [@ EXCEPT !.pc = "made", !.count = count,
                                   !.width = size[1], !.height = size[2],
                                   !.input = [i \in 1 .. count |-> i],
                                   !.imgs = [i \in 1 .. count |->
                                                CreateSetImage(size[1], size[2], 0).pixels]]]
    /\ UNCHANGED <<buildVars, objectVars, plotCounters, alone, otherVars>>

\* the client fills the images through ImageSet::ImageBuffer
ClientFill(t, patterns) ==
    /\ run[t].pc = "made"
    /\ \E pattern \in patterns :
          run' = [run EXCEPT ![t] = [@ EXCEPT !.pc = "filled", !.imgs = Fill(@, pattern)]]
    /\ UNCHANGED <<buildVars, objectVars, plotCounters, alone, otherVars>>

\* the thread is inside Run
MidRun(r) == r.pc \in {"running", "plotting", "performed"}

\* The same call taken alone.  Where a specification asks for it, a second
\* record of the call and a tree of its own, the tree as MakeStrategy built
\* it, go through the steps of the call with no other thread in between and
\* nothing shared.  A side of a thread is the call itself ("real", on the
\* shared tree) or the call taken alone.  SpecClearFlags uses the second
\* record for the same call on the tree built with CLEAR_FLAGS.
Sides(t) == IF alone[t] = NoObject THEN {"real"} ELSE {"real", "alone"}
Side(t, k) == IF k = "real" THEN [r |-> run[t], tree |-> strategy] ELSE alone[t]

\* the sides of thread t after a step of the call
Stepped(t, outs) ==
    /\ run' = [run EXCEPT ![t] = outs["real"].r]
    /\ strategy' = outs["real"].tree
    /\ alone' = IF alone[t] = NoObject THEN alone ELSE [alone EXCEPT ![t] = outs["alone"]]

\* the call of Run on the shared Strategy and the thread's ImageSet; beside
\* records that another thread was inside Run at that moment
RunBegin(t, followAlone) ==
    /\ run[t].pc = "filled"
    /\ strategy # NoStrategy
    /\ \E entered \in {RunEntered(run[t], t)} :
          /\ run' = [run EXCEPT ![t] =
                       [entered EXCEPT !.beside = \E u \in Threads \ {t} : MidRun(run[u])]]
          /\ alone' = IF followAlone THEN [alone EXCEPT ![t] = [r |-> entered, tree |-> BuiltTree]]
                       ELSE alone
    /\ UNCHANGED <<buildVars, objectVars, plotCounters, otherVars>>

\* the tree MakeStrategy builds of the arguments of the Strategy with
\* CLEAR_FLAGS added to the flags
BuiltTreeWithClearFlags ==
    StrategyCtor(strategyArgs.telescopeId, BitOr(strategyArgs.strategyFlags, CLEAR_FLAGS),
                 strategyArgs.frequency, strategyArgs.timeRes, strategyArgs.frequencyRes)

\* Run is called; beside it the same call goes through the tree built with
\* CLEAR_FLAGS
RunBeginBesideClearFlags(t) ==
    /\ run[t].pc = "filled"
    /\ strategy # NoStrategy
    /\ \E entered \in {RunEntered(run[t], t)} :
          /\ run' = [run EXCEPT ![t] = entered]
          /\ alone' = [alone EXCEPT ![t] = [r |-> entered, tree |-> BuiltTreeWithClearFlags]]
    /\ UNCHANGED <<buildVars, objectVars, plotCounters, otherVars>>

\* Perform goes on by one action
RunStep(t) ==
    /\ run[t].pc = "running"
    /\ ~AtPlot(run[t], strategy)
    /\ \E outs \in {[k \in Sides(t) |->
                        IF Side(t, k).r.pc = "running" /\ ~AtPlot(Side(t, k).r, Side(t, k).tree)
                        THEN Step(Side(t, k).r, Side(t, k).tree)
                        ELSE Side(t, k)]} :
          Stepped(t, outs)
    /\ UNCHANGED <<strategyArgs, objectVars, plotCounters, otherVars>>

\* the action to perform next throws
ActionThrows(t) ==
    /\ run[t].pc = "running"
    /\ NextChild(run[t], strategy) # 0
    /\ strategy[NextChild(run[t], strategy)].kind \notin BlockKinds
    /\ run' = [run EXCEPT ![t] = Thrown(@, strategy[NextChild(run[t], strategy)])]
    /\ UNCHANGED <<buildVars, objectVars, plotCounters, alone, otherVars>>

\* PlotAction takes the lock on the mutex of its artifacts
PlotLock(t) ==
    /\ run[t].pc = "running"
    /\ AtPlot(run[t], strategy)
    /\ ~MutexHeld(run[t].art.mutex)
    /\ \E outs \in {[k \in Sides(t) |->
                        IF Side(t, k).r.pc = "running" /\ AtPlot(Side(t, k).r, Side(t, k).tree)
                        THEN [Side(t, k) EXCEPT !.r = PlotLocked(@)]
                        ELSE Side(t, k)]} :
          Stepped(t, outs)
    /\ UNCHANGED <<strategyArgs, objectVars, plotCounters, otherVars>>

\* PlotAction adds to the counters and releases the lock
PlotUpdate(t) ==
    /\ run[t].pc = "plotting"
    /\ plotCounters' = plotCounters + 1
    /\ \E outs \in {[k \in Sides(t) |->
                        IF Side(t, k).r.pc = "plotting"
                        THEN [Side(t, k) EXCEPT !.r = PlotDone(@, Side(t, k).tree)]
                        ELSE Side(t, k)]} :
          Stepped(t, outs)
    /\ UNCHANGED <<strategyArgs, objectVars, otherVars>>

\* Run returns the FlagMask
RunReturn(t) ==
    /\ run[t].pc = "performed"
    /\ \E outs \in {[k \in Sides(t) |->
                        IF Side(t, k).r.pc = "performed"
                        THEN [Side(t, k) EXCEPT !.r = Extracted(@)]
                        ELSE Side(t, k)]} :
          Stepped(t, outs)
    /\ UNCHANGED <<strategyArgs, objectVars, plotCounters, otherVars>>

\* the client drops the FlagMask and calls Run once more on the same ImageSet
RunAgain(t) ==
    /\ run[t].pc = "returned"
    /\ plotCounters < MaxPlots
    /\ run' = [run EXCEPT ![t] =
                 [NotStarted EXCEPT !.pc = "filled", !.count = run[t].count,
                                    !.width = run[t].width, !.height = run[t].height,
                                    !.input = run[t].input,
                                    !.imgs = [i \in 1 .. Len(run[t].input) |-> run[t].imgs[run[t].input[i]]]]]
    /\ UNCHANGED <<buildVars, objectVars, plotCounters, alone, otherVars>>

\* the arguments of MakeStrategy in the specifications that run the tree
RunStrategyArgs ==
    [telescopeId : {GENERIC_TELESCOPE, MWA_TELESCOPE},
     strategyFlags : {NONE, TRANSIENTS, ROBUST, CLEAR_FLAGS, GUI_FRIENDLY},
     frequency : {0}, timeRes : {0}, frequencyRes : {0}]

ConcurrentStrategyArgs ==
    [telescopeId : {GENERIC_TELESCOPE},
     strategyFlags : {NONE, TRANSIENTS},
     frequency : {0}, timeRes : {0}, frequencyRes : {0}]

\* the sizes of the images of a Run
RunSizes == {<<2, 1>>, <<2, 2>>}

-----------------------------------------------------------------------------
(* A StatisticalFlagAction of any configuration on any masks *)

\* the ratios of a StatisticalFlagAction, in tenths
StatisticalRatios == {0, 2, 5, 6, 10}

\* a Strategy whose one child is a StatisticalFlagAction with the given
\* enlarge sizes and ratios (the setters of statisticalflagaction.h)
StatisticalStrategyOf(timeSize, frequencySize, timeRatio, frequencyRatio) ==
    [AddNew(<<NewAction("Strategy")>>, Root, "StatisticalFlagAction")
        EXCEPT ![2].enlargeTimeSize = timeSize,
               ![2].enlargeFrequencySize = frequencySize,
               ![2].minimumGoodTimeRatioTenths = timeRatio,
               ![2].minimumGoodFrequencyRatioTenths = frequencyRatio]

StatisticalStrategy ==
    /\ strategy = NoStrategy
    /\ \E timeSize \in 0 .. MaxEnlarge, frequencySize \in 0 .. MaxEnlarge,
          timeRatio \in StatisticalRatios, frequencyRatio \in StatisticalRatios :
          strategy' = StatisticalStrategyOf(timeSize, frequencySize, timeRatio, frequencyRatio)
    /\ UNCHANGED <<strategyArgs, objectVars, runVars, otherVars>>

\* the size of the images the StatisticalFlagAction works on
StatisticalSizes == {<<3, 2>>}

\* the masks of the second polarisation when the data have two
SecondMasks(width, height) == {{}, {<<0, 0>>}, {<<width - 1, height - 1>>}}

\* the contaminated data hold the given flags, each in a mask object of its own
WithContaminatedMasks(r, flagSets) ==
    [r EXCEPT !.msks = @ \o flagSets,
              !.art.contaminated.masks = [i \in 1 .. Len(flagSets) |-> Len(r.msks) + i]]

\* the original, the contaminated and the revised data hold the given flags
\* in the one mask object they share since the entry of Run
WithSharedMask(r, flags) == [r EXCEPT !.msks[r.entry.mask] = flags]

\* Run has been called and earlier actions have left any flags in the masks
\* of the contaminated data, or some flags in the mask all the data share
RunBeginFlagged(t) ==
    /\ run[t].pc = "filled"
    /\ strategy # NoStrategy
    /\ \/ \E first \in SUBSET Pixels(run[t].width, run[t].height),
             second \in SecondMasks(run[t].width, run[t].height) :
             run' = [run EXCEPT ![t] =
                       WithContaminatedMasks(RunEntered(run[t], t),
                           IF Len(RunEntered(run[t], t).art.contaminated.masks) = 1
                           THEN <<first>> ELSE <<first, second>>)]
       \/ \E flags \in SecondMasks(run[t].width, run[t].height) :
             run' = [run EXCEPT ![t] = WithSharedMask(RunEntered(run[t], t), flags)]
    /\ UNCHANGED <<buildVars, objectVars, plotCounters, alone, otherVars>>

AtStatisticalFlag(r, tree) ==
    /\ r.pc = "running"
    /\ NextChild(r, tree) # 0
    /\ tree[NextChild(r, tree)].kind = "StatisticalFlagAction"

-----------------------------------------------------------------------------
(* The SIR operator on strips *)

\* the ratios of the SIR operator, in tenths: 0.0, 0.1, ..., 1.0
RatioTenths == 0 .. 10

\* the boolean strips of at most MaxStrip samples
Strips == UNION {[1 .. n -> BOOLEAN] : n \in 0 .. MaxStrip}

FlaggedOf(strip) == {i \in 1 .. Len(strip) : strip[i]}

InitOperatorVars == sir = NoObject

\* a strip and a ratio are chosen
SIRChoose ==
    /\ sir = NoObject
    /\ \E strip \in Strips, ratio \in RatioTenths :
          sir' = [strip |-> strip, ratioTenths |-> ratio, results |-> <<>>,
                  other |-> NoObject, sums |-> NoObject]
    /\ UNCHANGED <<buildVars, objectVars, runVars, statistics, strategies, widget>>

\* the operator is applied to the strip, or to its last result
SIRApply ==
    /\ sir # NoObject
    /\ Len(sir.results) < MaxApplications
    /\ sir' = [sir EXCEPT !.results =
                 Append(@, SIRStrip(IF @ = <<>> THEN sir.strip ELSE @[Len(@)], sir.ratioTenths))]
    /\ UNCHANGED <<buildVars, objectVars, runVars, statistics, strategies, widget>>

\* the operator is applied to the strip under another ratio
SIRApplyRatio ==
    /\ sir # NoObject
    /\ sir.other = NoObject
    /\ \E ratio \in RatioTenths :
          sir' = [sir EXCEPT !.other = [ratioTenths |-> ratio, result |-> SIRStrip(sir.strip, ratio)]]
    /\ UNCHANGED <<buildVars, objectVars, runVars, statistics, strategies, widget>>

\* the running sums of f: sums[k + 1] = f[1] + ... + f[k]
RECURSIVE PrefixSums(_)
PrefixSums(f) ==
    IF f = <<>> THEN <<0>>
    ELSE LET before == PrefixSums(SubSeq(f, 1, Len(f) - 1))
         IN  Append(before, before[Len(f)] + f[Len(f)])

Maximum(numbers) == CHOOSE n \in numbers : \A m \in numbers : m <= n
Minimum(numbers) == CHOOSE n \in numbers : \A m \in numbers : n <= m

\* the maximum sum of f over the intervals around each sample, by prefix
\* sums: the largest running sum at or after the sample less the smallest
\* running sum before it
MaxSumsAround(f) ==
    [i \in 1 .. Len(f) |->
        Maximum({PrefixSums(f)[b + 1] : b \in i .. Len(f)})
            - Minimum({PrefixSums(f)[a] : a \in 1 .. i})]

\* f(j) = eta - x_j in tenths, x_j = 1 when sample j is flagged, else 0
RatioLessFlag(strip, ratioTenths) ==
    [j \in 1 .. Len(strip) |-> ratioTenths - (IF strip[j] THEN 10 ELSE 0)]

\* f(j) = x_j - eta in tenths
FlagLessRatio(strip, ratioTenths) ==
    [j \in 1 .. Len(strip) |-> (IF strip[j] THEN 10 ELSE 0) - ratioTenths]

\* the maximum contiguous sums around each sample are computed for the strip
SIRMaxSums ==
    /\ sir # NoObject
    /\ sir.sums = NoObject
    /\ sir' = [sir EXCEPT !.sums =
                 [ofRatioLessFlag |-> MaxSumsAround(RatioLessFlag(sir.strip, sir.ratioTenths)),
                  ofFlagLessRatio |-> MaxSumsAround(FlagLessRatio(sir.strip, sir.ratioTenths))]]
    /\ UNCHANGED <<buildVars, objectVars, runVars, statistics, strategies, widget>>

-----------------------------------------------------------------------------
(* QualityStatistics, aoflagger.cpp:238-290, and AOFlagger::CollectStatistics *)

QSlots == 1 .. MaxStatistics

\* a QualityStatistics object is its QualityStatisticsData, which holds a
\* shared pointer to a QualityStatisticsDataImp; an implementation holds the
\* rows added to its StatisticsCollection and whether two calls wrote it at once
InitStatistics ==
    statistics = [objects |-> [s \in QSlots |-> NoObject],
                  impls |-> [h \in QSlots |-> NoObject],
                  collecting |-> [t \in Threads |-> NoObject]]

LiveStatistics(s) == statistics.objects[s] # NoObject

ImplementationOf(s) == statistics.objects[s].implementation

\* no thread is inside CollectStatistics on the object
AtRest(s) ==
    \A t \in Threads :
        IF statistics.collecting[t] = NoObject THEN TRUE ELSE statistics.collecting[t].object # s

\* boost::shared_ptr: an implementation no object points to is destroyed
Released(objects, impls) ==
    [h \in QSlots |->
        IF \E s \in QSlots : objects[s] # NoObject /\ objects[s].implementation = h
        THEN impls[h] ELSE NoObject]

\* QualityStatistics::QualityStatistics(scanTimes, ...), lines 264-268,
\* through AOFlagger::MakeQualityStatistics (378-381): a new implementation
MakeQualityStatistics(s) ==
    /\ ~LiveStatistics(s)
    /\ \E h \in {CHOOSE h \in QSlots : statistics.impls[h] = NoObject} :
          statistics' = [statistics EXCEPT !.objects[s] = [implementation |-> h],
                                           !.impls[h] = [rows |-> 0, torn |-> FALSE]]
    /\ UNCHANGED <<buildVars, objectVars, runVars, sir, strategies, widget>>

\* QualityStatistics::QualityStatistics(const QualityStatistics&), lines
\* 270-273: a new QualityStatisticsData on the implementation of the source
CopyQualityStatistics(dst, src) ==
    /\ ~LiveStatistics(dst) /\ LiveStatistics(src)
    /\ statistics' = [statistics EXCEPT !.objects[dst] = [implementation |-> ImplementationOf(src)]]
    /\ UNCHANGED <<buildVars, objectVars, runVars, sir, strategies, widget>>

\* QualityStatistics::operator=, lines 280-284: the implementation pointer of
\* the source replaces that of the target
AssignQualityStatistics(dst, src) ==
    /\ LiveStatistics(dst) /\ LiveStatistics(src) /\ AtRest(dst)
    /\ ImplementationOf(dst) # ImplementationOf(src)
    /\ \E objects \in {[statistics.objects EXCEPT ![dst] = [implementation |-> ImplementationOf(src)]]} :
          statistics' = [statistics EXCEPT !.objects = objects,
                                           !.impls = Released(objects, @)]
    /\ UNCHANGED <<buildVars, objectVars, runVars, sir, strategies, widget>>

\* QualityStatistics::~QualityStatistics, lines 275-278
DestroyQualityStatistics(s) ==
    /\ LiveStatistics(s) /\ AtRest(s)
    /\ \E objects \in {[statistics.objects EXCEPT ![s] = NoObject]} :
          statistics' = [statistics EXCEPT !.objects = objects,
                                           !.impls = Released(objects, @)]
    /\ UNCHANGED <<buildVars, objectVars, runVars, sir, strategies, widget>>

\* QualityStatistics::operator+=, lines 286-290: the rows of the right-hand
\* side are added to the collection of the left-hand side
CombineQualityStatistics(dst, src) ==
    /\ LiveStatistics(dst) /\ LiveStatistics(src)
    /\ \A t \in Threads : statistics.collecting[t] = NoObject
    /\ statistics.impls[ImplementationOf(dst)].rows + statistics.impls[ImplementationOf(src)].rows <= MaxRows
    /\ statistics.impls[ImplementationOf(src)].rows > 0
    /\ statistics' = [statistics EXCEPT !.impls[ImplementationOf(dst)].rows =
                                            @ + statistics.impls[ImplementationOf(src)].rows]
    /\ UNCHANGED <<buildVars, objectVars, runVars, sir, strategies, widget>>

\* AOFlagger::CollectStatistics, lines 383-414, up to its first stats.Add: the
\* thread holds a reference to the collection of the destination.  A thread
\* calls it on an object no other thread is calling it on.
CollectBegin(t, s) ==
    /\ statistics.collecting[t] = NoObject
    /\ LiveStatistics(s) /\ AtRest(s)
    /\ statistics.impls[ImplementationOf(s)].rows < MaxRows
    /\ statistics' = [statistics EXCEPT
                         !.collecting[t] = [object |-> s, implementation |-> ImplementationOf(s)],
                         !.impls[ImplementationOf(s)].torn =
                             @ \/ \E u \in Threads \ {t} :
                                     /\ statistics.collecting[u] # NoObject
                                     /\ statistics.collecting[u].implementation = ImplementationOf(s)]
    /\ UNCHANGED <<buildVars, objectVars, runVars, sir, strategies, widget>>

\* the stats.Add calls of CollectStatistics are done.  Unsynchronised calls
\* of Add on one collection from two threads leave any number of rows in it.
CollectEnd(t) ==
    /\ statistics.collecting[t] # NoObject
    /\ \E rows \in 0 .. MaxRows :
          /\ statistics.impls[statistics.collecting[t].implementation].torn
                \/ rows = statistics.impls[statistics.collecting[t].implementation].rows + 1
          /\ statistics' = [statistics EXCEPT
                               !.collecting[t] = NoObject,
                               !.impls[statistics.collecting[t].implementation].rows = rows]
    /\ UNCHANGED <<buildVars, objectVars, runVars, sir, strategies, widget>>

-----------------------------------------------------------------------------
(* The Strategy objects of the facade, aoflagger.cpp:125-175 *)

SSlots == 1 .. MaxStrategies

\* a Strategy object is its _data pointer; a StrategyData holder keeps the
\* shared pointer to its rfiStrategy tree and how often it was deleted
InitStrategies ==
    strategies = [objects |-> [s \in SSlots |-> NoObject], holders |-> <<>>]

LiveStrategy(s) == strategies.objects[s] # NoObject

HolderOf(s) == strategies.objects[s].data

\* Strategy::Strategy(telescopeId, ...), lines 145-153, through
\* AOFlagger::MakeStrategy (311-314): a new StrategyData around a new tree
MakeStrategyObject(s) ==
    /\ ~LiveStrategy(s)
    /\ Len(strategies.holders) < MaxHolders
    /\ strategies' = [strategies EXCEPT
                         !.holders = Append(@, [strategyPtr |-> Len(@) + 1, deletes |-> 0]),
                         !.objects[s] = [data |-> Len(strategies.holders) + 1]]
    /\ UNCHANGED <<buildVars, objectVars, runVars, sir, statistics, widget>>

\* Strategy::Strategy(const Strategy&), lines 161-164: _data(sourceStrategy._data)
CopyStrategy(dst, src) ==
    /\ ~LiveStrategy(dst) /\ LiveStrategy(src)
    /\ strategies' = [strategies EXCEPT !.objects[dst] = [data |-> HolderOf(src)]]
    /\ UNCHANGED <<buildVars, objectVars, runVars, sir, statistics, widget>>

\* Strategy::operator=, lines 171-175: *_data = *sourceStrategy._data, which
\* copies the shared pointer to the tree from holder to holder
AssignStrategy(dst, src) ==
    /\ LiveStrategy(dst) /\ LiveStrategy(src)
    /\ strategies' = [strategies EXCEPT
                         !.holders[HolderOf(dst)].strategyPtr = strategies.holders[HolderOf(src)].strategyPtr]
    /\ UNCHANGED <<buildVars, objectVars, runVars, sir, statistics, widget>>

\* Strategy::~Strategy, lines 166-169: delete _data
DestroyStrategy(s) ==
    /\ LiveStrategy(s)
    /\ strategies.holders[HolderOf(s)].deletes < MaxDeletes
    /\ strategies' = [strategies EXCEPT !.objects[s] = NoObject,
                                        !.holders[HolderOf(s)].deletes = @ + 1]
    /\ UNCHANGED <<buildVars, objectVars, runVars, sir, statistics, widget>>

-----------------------------------------------------------------------------
(* The zoom window of the ImageWidget, imagewidget.cpp:21-54 and 104-187.   *)
(* The four bounds of the window are doubles.  The model keeps the format   *)
(* of a double (binary, a significand of a fixed number of bits, gradual    *)
(* underflow, every operation rounded to nearest, ties to even) with fewer  *)
(* bits.  A number is written as an integer count of quarters of the        *)
(* smallest positive number, in which every sum, difference, quarter and    *)
(* half of two numbers of the format is exact before it is rounded.         *)

\* the smallest positive number, and 1.0
Smallest == 2^2
One == 4 * 2^SmallestExponent

\* floor(log2(n)) of n > 0
Magnitude(n) == CHOOSE e \in 0 .. (SmallestExponent + 4) : 2^e <= n /\ n < 2^(e + 1)

\* the distance of the numbers of the format around n >= 0
Ulp(n) ==
    IF n < Smallest * 2^MantissaBits THEN Smallest ELSE 2^(Magnitude(n) - MantissaBits + 1)

\* n >= 0 rounded to the nearest multiple of ulp, a tie to the even one
RoundedTo(n, ulp) ==
    IF 2 * (n % ulp) < ulp THEN (n \div ulp) * ulp
    ELSE IF 2 * (n % ulp) > ulp THEN (n \div ulp + 1) * ulp
    ELSE IF (n \div ulp) % 2 = 0 THEN (n \div ulp) * ulp
    ELSE (n \div ulp + 1) * ulp

\* the number of the format that an exact result is stored as
Rounded(n) == IF n < 0 THEN 0 - RoundedTo(0 - n, Ulp(0 - n)) ELSE RoundedTo(n, Ulp(n))

\* a + b, a - b, a * 0.25 and a * 0.5 on doubles
Plus(a, b) == Rounded(a + b)
Minus(a, b) == Rounded(a - b)
Quarter(a) == Rounded(a \div 4)
Half(a) == Rounded(a \div 2)

\* the image of the widget; its width and its height are powers of two, so
\* that double(x) / Width() is exact before it is rounded
WidgetImageSize == <<4, 2>>

\* double(x) / _image->Width(), imagewidget.cpp:126
Ratio(x, size) == Rounded((x * One) \div size)

\* a window <<start, end>> that begins below 0.0 is moved up to begin there
\* (imagewidget.cpp:130-134, 163-166)
MovedUp(start, end) == IF start < 0 THEN <<0, Minus(end, start)>> ELSE <<start, end>>

\* a window that ends above 1.0 is moved down to end there
\* (imagewidget.cpp:135-139, 167-170)
MovedDown(window) ==
    IF window[2] > One THEN <<Minus(window[1], Minus(window[2], One)), One>> ELSE window

\* imagewidget.cpp:171
StartAtLeastZero(window) == IF window[1] < 0 THEN <<0, window[2]>> ELSE window

\* one axis of ZoomIn, imagewidget.cpp:115-117
Narrowed(window, dist) == <<Plus(window[1], dist), Minus(window[2], dist)>>
ZoomInAxis(window) == Narrowed(window, Quarter(Minus(window[2], window[1])))

\* one axis of ZoomInOn, imagewidget.cpp:127-139
Around(ratio, dist) == MovedDown(MovedUp(Minus(ratio, dist), Plus(ratio, dist)))
ZoomInOnAxis(window, ratio) == Around(ratio, Quarter(Minus(window[2], window[1])))

\* one axis of ZoomOut, imagewidget.cpp:160-171
Widened(window, dist) ==
    StartAtLeastZero(MovedDown(MovedUp(Minus(window[1], dist), Plus(window[2], dist))))
ZoomOutAxis(window) == Widened(window, Half(Minus(window[2], window[1])))

\* the widget with the given windows
Zoomed(horizontal, vertical) ==
    [startHorizontal |-> horizontal[1], endHorizontal |-> horizontal[2],
     startVertical |-> vertical[1], endVertical |-> vertical[2]]

Horizontal == <<widget.startHorizontal, widget.endHorizontal>>
Vertical == <<widget.startVertical, widget.endVertical>>

\* ImageWidget::ImageWidget, imagewidget.cpp:30-33
InitWidget == widget = Zoomed(<<0, One>>, <<0, One>>)

widgetElse == <<buildVars, objectVars, runVars, sir, statistics, strategies>>

ZoomFit ==
    /\ widget' = Zoomed(<<0, One>>, <<0, One>>)
    /\ UNCHANGED widgetElse

ZoomIn ==
    /\ widget' = Zoomed(ZoomInAxis(Horizontal), ZoomInAxis(Vertical))
    /\ UNCHANGED widgetElse

ZoomInOn(x, y) ==
    /\ widget' = Zoomed(ZoomInOnAxis(Horizontal, Ratio(x, WidgetImageSize[1])),
                        ZoomInOnAxis(Vertical, Ratio(y, WidgetImageSize[2])))
    /\ UNCHANGED widgetElse

\* IsZoomedOut is declared in imagewidget.h, which is not among the sources:
\* ZoomOut is followed both where it returns true and where it returns false
ZoomOut ==
    /\ \E isZoomedOut \in BOOLEAN :
          widget' = IF isZoomedOut THEN widget
                    ELSE Zoomed(ZoomOutAxis(Horizontal), ZoomOutAxis(Vertical))
    /\ UNCHANGED widgetElse

-----------------------------------------------------------------------------
(* The specifications *)

Init ==
    /\ InitBuildVars /\ InitObjectVars /\ InitRunVars /\ InitOperatorVars
    /\ InitStatistics /\ InitStrategies /\ InitWidget

BuildStep == MakeStrategy(AllStrategyArgs) /\ UNCHANGED <<objectVars, runVars, otherVars>>

NextBuild == BuildStep

SpecBuild == Init /\ [][NextBuild]_vars

NextObjects ==
    \/ \E s \in Slots : MakeImageSet(s)
    \/ \E dst \in Slots, src \in Slots : CopyImageSet(dst, src)
    \/ \E dst \in Slots, src \in Slots : AssignImageSet(dst, src)
    \/ \E s \in Slots : DestroyImageSet(s)
    \/ \E s \in Slots : WritePixel(s)

SpecObjects == Init /\ [][NextObjects]_vars

\* one client: any supported strategy, any count up to 8 and a 3, any pattern
RunCounts == {1, 2, 3, 4, 8}

StrategyForRun == MakeStrategy(RunStrategyArgs) /\ UNCHANGED <<objectVars, runVars, otherVars>>

NextRun ==
    \/ StrategyForRun
    \/ ClientMakeImageSet(1, RunSizes, RunCounts)
    \/ ClientFill(1, Patterns)
    \/ RunBegin(1, FALSE)
    \/ RunStep(1)
    \/ ActionThrows(1)
    \/ PlotLock(1)
    \/ PlotUpdate(1)
    \/ RunReturn(1)
    \/ RunAgain(1)

SpecRun == Init /\ [][NextRun]_vars

\* two clients on one Strategy, each with an ImageSet of its own
StrategyForThreads == MakeStrategy(ConcurrentStrategyArgs) /\ UNCHANGED <<objectVars, runVars, otherVars>>

NextConcurrent ==
    \/ StrategyForThreads
    \/ \E t \in Threads : ClientMakeImageSet(t, {<<2, 1>>}, {1, 2})
    \/ \E t \in Threads : ClientFill(t, {"level", "spike"})
    \/ \E t \in Threads : RunBegin(t, TRUE)
    \/ \E t \in Threads : RunStep(t)
    \/ \E t \in Threads : PlotLock(t)
    \/ \E t \in Threads : PlotUpdate(t)
    \/ \E t \in Threads : RunReturn(t)

SpecConcurrent == Init /\ [][NextConcurrent]_vars

\* one client whose Strategy is a StatisticalFlagAction and whose contaminated
\* data hold any flags when Perform reaches it
NextStatistical ==
    \/ StatisticalStrategy
    \/ ClientMakeImageSet(1, StatisticalSizes, {1, 4})
    \/ ClientFill(1, {"level"})
    \/ RunBeginFlagged(1)
    \/ RunStep(1)
    \/ RunReturn(1)

SpecStatistical == Init /\ [][NextStatistical]_vars

\* the SIR operator applied to any strip under any ratio, and again to its result
NextSIR ==
    \/ SIRChoose
    \/ SIRApply
    \/ SIRApplyRatio
    \/ SIRMaxSums

SpecSIR == Init /\ [][NextSIR]_vars

\* two threads that collect statistics, each on an object no other thread is
\* collecting on, and the objects made, copied, assigned, combined and destroyed
NextQuality ==
    \/ \E s \in QSlots : MakeQualityStatistics(s)
    \/ \E dst \in QSlots, src \in QSlots : CopyQualityStatistics(dst, src)
    \/ \E dst \in QSlots, src \in QSlots : AssignQualityStatistics(dst, src)
    \/ \E s \in QSlots : DestroyQualityStatistics(s)
    \/ \E dst \in QSlots, src \in QSlots : CombineQualityStatistics(dst, src)
    \/ \E t \in Threads, s \in QSlots : CollectBegin(t, s)
    \/ \E t \in Threads : CollectEnd(t)

SpecQuality == Init /\ [][NextQuality]_vars

\* a client that makes, copies, assigns and destroys Strategy objects
NextStrategies ==
    \/ \E s \in SSlots : MakeStrategyObject(s)
    \/ \E dst \in SSlots, src \in SSlots : CopyStrategy(dst, src)
    \/ \E dst \in SSlots, src \in SSlots : AssignStrategy(dst, src)
    \/ \E s \in SSlots : DestroyStrategy(s)

SpecStrategies == Init /\ [][NextStrategies]_vars

\* the arguments of MakeStrategy without CLEAR_FLAGS
ClearFlagsStrategyArgs ==
    [telescopeId : {GENERIC_TELESCOPE, MWA_TELESCOPE},
     strategyFlags : {NONE, TRANSIENTS, ROBUST, GUI_FRIENDLY},
     frequency : {0}, timeRes : {0}, frequencyRes : {0}]

StrategyWithoutClearFlags ==
    MakeStrategy(ClearFlagsStrategyArgs) /\ UNCHANGED <<objectVars, runVars, otherVars>>

\* one client that calls Run with a Strategy built without CLEAR_FLAGS, and
\* the same call with the Strategy built with it
NextClearFlags ==
    \/ StrategyWithoutClearFlags
    \/ ClientMakeImageSet(1, RunSizes, {1, 2, 4, 8})
    \/ ClientFill(1, Patterns)
    \/ RunBeginBesideClearFlags(1)
    \/ RunStep(1)
    \/ PlotLock(1)
    \/ PlotUpdate(1)
    \/ RunReturn(1)

SpecClearFlags == Init /\ [][NextClearFlags]_vars

\* any sequence of zooms of a new ImageWidget
NextWidget ==
    \/ ZoomFit
    \/ ZoomIn
    \/ ZoomOut
    \/ \E x \in 0 .. (WidgetImageSize[1] - 1), y \in 0 .. (WidgetImageSize[2] - 1) : ZoomInOn(x, y)

SpecWidget == Init /\ [][NextWidget]_vars

-----------------------------------------------------------------------------
(* Claims on the builder *)

Built == strategy # NoStrategy

TheIteration == CHOOSE n \in NodesOfKind(strategy, "IterationBlock") : TRUE
TheComponentBlock == CHOOSE n \in NodesOfKind(strategy, "ForEachComplexComponentAction") : TRUE
Calibrations == NodesOfKind(strategy, "CalibratePassbandAction")

\* C9: the built tree contains a CalibratePassband action iff (the telescope is
\* MWA and SMALL_BANDWIDTH is not set) or LARGE_BANDWIDTH is set; when present
\* it is the one such action, a child of ForEachComplexComponent placed right
\* after the Iteration block and right before the final SumThreshold, which is
\* the last child.
C9_CalibratePassband ==
    Built =>
        LET wanted == \/ (strategyArgs.telescopeId = MWA_TELESCOPE
                            /\ ~HasFlag(strategyArgs.strategyFlags, SMALL_BANDWIDTH))
                      \/ HasFlag(strategyArgs.strategyFlags, LARGE_BANDWIDTH)
            kinds == ChildKinds(strategy, TheComponentBlock)
        IN  /\ (Calibrations # {}) <=> wanted
            /\ wanted => /\ Cardinality(Calibrations) = 1
                         /\ kinds = <<"IterationBlock", "CalibratePassbandAction", "SumThresholdAction">>
            /\ ~wanted => kinds = <<"IterationBlock", "SumThresholdAction">>

\* a tree built for MWA without SMALL_BANDWIDTH and without LARGE_BANDWIDTH holds the action
C9_Witness ==
    /\ Built
    /\ strategyArgs.telescopeId = MWA_TELESCOPE
    /\ ~HasFlag(strategyArgs.strategyFlags, LARGE_BANDWIDTH)
    /\ ~HasFlag(strategyArgs.strategyFlags, SMALL_BANDWIDTH)
    /\ Calibrations # {}
    /\ Parent(strategy, CHOOSE c \in Calibrations : TRUE) = TheComponentBlock

\* C10: the Iteration block has iteration count 4 when ROBUST is set and 2
\* otherwise, and sensitivity start 2 * 2^(count/2): 8 with ROBUST, 4 without,
\* for every telescope and every other flag.
C10_IterationSchedule ==
    Built =>
        LET robust == HasFlag(strategyArgs.strategyFlags, ROBUST)
            it == strategy[TheIteration]
        IN  /\ Cardinality(NodesOfKind(strategy, "IterationBlock")) = 1
            /\ it.iterationCount = (IF robust THEN 4 ELSE 2)
            /\ it.sensitivityStart = (IF robust THEN 8 ELSE 4)
            /\ it.sensitivityStart * it.sensitivityStart = 4 * Pow2(it.iterationCount)

\* a tree built with ROBUST among other flags
C10_Witness ==
    /\ Built
    /\ HasFlag(strategyArgs.strategyFlags, ROBUST)
    /\ HasFlag(strategyArgs.strategyFlags, CLEAR_FLAGS)
    /\ strategyArgs.telescopeId = LOFAR_TELESCOPE
    /\ strategy[TheIteration].iterationCount = 4
    /\ strategy[TheIteration].sensitivityStart = 8

\* the action at pointer n with the setting that tells it from others of its kind
Tag(tree, n) ==
    LET a == tree[n]
    IN  CASE a.kind = "SetFlaggingAction" -> <<a.kind, a.newFlagging>>
          [] a.kind = "PlotAction" -> <<a.kind, a.plotKind>>
          [] a.kind = "BaselineSelectionAction" ->
                <<a.kind, IF a.preparationStep THEN "PreparationStep" ELSE "Selection">>
          [] OTHER -> <<a.kind>>

\* the children of the block at pointer p, tagged
ChildTags(tree, p) == [i \in 1 .. Len(tree[p].children) |-> Tag(tree, tree[p].children[i])]

OrOriginals ==
    {n \in NodesOfKind(strategy, "SetFlaggingAction") : strategy[n].newFlagging = "OrOriginal"}
SumThresholds == NodesOfKind(strategy, "SumThresholdAction")
ThePolarisationBlock == CHOOSE n \in NodesOfKind(strategy, "ForEachPolarisationBlock") : TRUE
TheHighPassFilter == CHOOSE n \in NodesOfKind(strategy, "HighPassFilterAction") : TRUE

\* C11: the last child of the root is the one SetFlagging(OrOriginal) of the
\* tree iff neither CLEAR_FLAGS nor GUI_FRIENDLY is set; with either set the
\* tree holds no OrOriginal action.
C11_OrOriginalLast ==
    Built =>
        LET clear == \/ HasFlag(strategyArgs.strategyFlags, CLEAR_FLAGS)
                     \/ HasFlag(strategyArgs.strategyFlags, GUI_FRIENDLY)
            children == strategy[Root].children
        IN  /\ clear => OrOriginals = {}
            /\ ~clear => /\ Cardinality(OrOriginals) = 1
                         /\ children[Len(children)] \in OrOriginals
            /\ (children[Len(children)] \in OrOriginals) <=> ~clear

\* a tree built with GUI_FRIENDLY alone ends with the BaselineSelection
C11_Witness ==
    /\ Built
    /\ strategyArgs.strategyFlags = GUI_FRIENDLY
    /\ OrOriginals = {}
    /\ strategy[strategy[Root].children[Len(strategy[Root].children)]].kind = "BaselineSelectionAction"

\* C12: the tree holds two SumThreshold actions, the first child of the
\* Iteration block and the last child of ForEachComplexComponent; with
\* TRANSIENTS both have frequency-direction flagging off, without it both
\* have it as the constructor left it, on.
C12_FrequencyDirection ==
    Built =>
        LET transients == HasFlag(strategyArgs.strategyFlags, TRANSIENTS)
            inIteration == strategy[TheIteration].children[1]
            components == strategy[TheComponentBlock].children
            final == components[Len(components)]
        IN  /\ SumThresholds = {inIteration, final}
            /\ inIteration # final
            /\ \A n \in SumThresholds :
                  strategy[n].frequencyDirectionFlagging = ~transients
            /\ ~transients =>
                  \A n \in SumThresholds :
                      strategy[n].frequencyDirectionFlagging =
                          NewAction("SumThresholdAction").frequencyDirectionFlagging

\* a tree built with TRANSIENTS alone: neither SumThreshold flags along frequency
C12_Witness ==
    /\ Built
    /\ strategyArgs.strategyFlags = TRANSIENTS
    /\ Cardinality(SumThresholds) = 2
    /\ \A n \in SumThresholds : ~strategy[n].frequencyDirectionFlagging

\* C13: the children of the root are, in order, SetImage (iff GUI_FRIENDLY),
\* SetFlagging(None), ForEachPolarisation, Plot(PolarizationStatistics),
\* SetFlagging(PolarisationsEqual), StatisticalFlag, TimeSelection (iff not
\* TRANSIENTS), BaselineSelection(preparation step), SetFlagging(OrOriginal)
\* (iff not clearFlags); every SumThreshold lies below ForEachPolarisation.
C13_RootChildren ==
    Built =>
        LET flags == strategyArgs.strategyFlags
            clear == HasFlag(flags, CLEAR_FLAGS) \/ HasFlag(flags, GUI_FRIENDLY)
        IN  /\ ChildTags(strategy, Root) =
                  (IF HasFlag(flags, GUI_FRIENDLY) THEN << <<"SetImageAction">> >> ELSE <<>>)
                  \o << <<"SetFlaggingAction", "None">>,
                        <<"ForEachPolarisationBlock">>,
                        <<"PlotAction", "PolarizationStatisticsPlot">>,
                        <<"SetFlaggingAction", "PolarisationsEqual">>,
                        <<"StatisticalFlagAction">> >>
                  \o (IF ~HasFlag(flags, TRANSIENTS) THEN << <<"TimeSelectionAction">> >> ELSE <<>>)
                  \o << <<"BaselineSelectionAction", "PreparationStep">> >>
                  \o (IF ~clear THEN << <<"SetFlaggingAction", "OrOriginal">> >> ELSE <<>>)
            /\ strategy[ThePolarisationBlock].children = <<TheComponentBlock>>
            /\ Parent(strategy, TheIteration) = TheComponentBlock
            /\ \A n \in SumThresholds : Parent(strategy, n) \in {TheIteration, TheComponentBlock}

\* a tree built with GUI_FRIENDLY and TRANSIENTS: SetImage comes first, no
\* TimeSelection and no OrOriginal among the seven children of the root
C13_Witness ==
    /\ Built
    /\ strategyArgs.strategyFlags = BitOr(GUI_FRIENDLY, TRANSIENTS)
    /\ Len(strategy[Root].children) = 7
    /\ strategy[strategy[Root].children[1]].kind = "SetImageAction"

\* C14: the children of the Iteration block are, in order, SumThreshold with
\* base sensitivity 1, CombineFlagResults holding FrequencySelection and then
\* TimeSelection (iff not TRANSIENTS), SetImage, and ChangeResolution with
\* time factor 1 under TRANSIENTS and 3 otherwise and frequency factor 3,
\* whose one child is the HighPassFilter.
C14_IterationChildren ==
    Built =>
        LET transients == HasFlag(strategyArgs.strategyFlags, TRANSIENTS)
            children == strategy[TheIteration].children
        IN  /\ ChildKinds(strategy, TheIteration) =
                  <<"SumThresholdAction", "CombineFlagResults", "SetImageAction", "ChangeResolutionAction">>
            /\ strategy[children[1]].baseSensitivity = 1
            /\ ChildKinds(strategy, children[2]) =
                  (IF transients THEN <<"FrequencySelectionAction">>
                   ELSE <<"FrequencySelectionAction", "TimeSelectionAction">>)
            /\ strategy[children[4]].timeDecreaseFactor = (IF transients THEN 1 ELSE 3)
            /\ strategy[children[4]].frequencyDecreaseFactor = 3
            /\ ChildKinds(strategy, children[4]) = <<"HighPassFilterAction">>

\* a tree built with TRANSIENTS and ROBUST: the time factor is 1 and
\* CombineFlagResults holds the FrequencySelection only
C14_Witness ==
    /\ Built
    /\ strategyArgs.strategyFlags = BitOr(TRANSIENTS, ROBUST)
    /\ Len(strategy[TheIteration].children) = 4
    /\ strategy[strategy[TheIteration].children[4]].timeDecreaseFactor = 1
    /\ Len(strategy[strategy[TheIteration].children[2]].children) = 1

\* C16 as stated: for every flag word the HighPassFilter has horizontal kernel
\* variance 2.5, vertical kernel variance 5.0, window height 31, window width
\* 1 with TRANSIENTS and 21 without, and mode StoreRevised.
C16_HighPassFilterAsStated ==
    Built =>
        LET hp == strategy[TheHighPassFilter]
        IN  /\ hp.hKernelSigmaSqTenths = 25
            /\ hp.vKernelSigmaSqTenths = 50
            /\ hp.windowHeight = 31
            /\ hp.windowWidth = (IF HasFlag(strategyArgs.strategyFlags, TRANSIENTS) THEN 1 ELSE 21)
            /\ hp.mode = "StoreRevised"

\* C16: the tree holds one HighPassFilter, with vertical kernel variance 5.0,
\* window height 31 and mode StoreRevised for every flag word; without
\* TRANSIENTS its window width is 21 and its horizontal kernel variance 2.5,
\* with TRANSIENTS its window width is 1 and its horizontal kernel variance
\* is what the constructor left, the builder setting none.
C16_HighPassFilter ==
    Built =>
        LET hp == strategy[TheHighPassFilter]
            transients == HasFlag(strategyArgs.strategyFlags, TRANSIENTS)
        IN  /\ Cardinality(NodesOfKind(strategy, "HighPassFilterAction")) = 1
            /\ hp.vKernelSigmaSqTenths = 50
            /\ hp.windowHeight = 31
            /\ hp.mode = "StoreRevised"
            /\ hp.windowWidth = (IF transients THEN 1 ELSE 21)
            /\ hp.hKernelSigmaSqTenths =
                  (IF transients THEN NewAction("HighPassFilterAction").hKernelSigmaSqTenths ELSE 25)

\* a tree built with TRANSIENTS: the window is one sample wide and the
\* horizontal kernel variance is not the 2.5 of the other trees
C16_Witness ==
    /\ Built
    /\ HasFlag(strategyArgs.strategyFlags, TRANSIENTS)
    /\ strategy[TheHighPassFilter].windowWidth = 1
    /\ strategy[TheHighPassFilter].hKernelSigmaSqTenths # 25
    /\ strategy[TheHighPassFilter].vKernelSigmaSqTenths = 50

\* the bits of the flag word the builder reads
ReadFlags ==
    BitOr(BitOr(BitOr(FLAG_TRANSIENTS, FLAG_ROBUST), BitOr(FLAG_GUI_FRIENDLY, FLAG_CLEAR_FLAGS)),
          BitOr(FLAG_LARGE_BANDWIDTH, FLAG_SMALL_BANDWIDTH))

\* C17: the tree of a MakeStrategy call is the tree of the call that keeps
\* only what the builder reads: MWA or not for the telescope, the bits
\* TRANSIENTS, ROBUST, GUI_FRIENDLY, CLEAR_FLAGS, LARGE_BANDWIDTH and
\* SMALL_BANDWIDTH of the flags, and zero for frequency, timeRes and
\* frequencyRes; so calls that agree on these build equal trees.
C17_TreeDependsOnlyOnReadArgs ==
    Built =>
        strategy = StrategyCtor(IF strategyArgs.telescopeId = MWA_TELESCOPE
                                THEN MWA_TELESCOPE ELSE GENERIC_TELESCOPE,
                                BitAnd(strategyArgs.strategyFlags, ReadFlags), 0, 0, 0)

\* a tree built for WSRT with ROBUST among flags the builder does not read,
\* with a frequency and resolutions given
C17_Witness ==
    /\ Built
    /\ strategyArgs.telescopeId = WSRT_TELESCOPE
    /\ strategyArgs.strategyFlags = BitOr(ROBUST, BitOr(FAST, BitOr(SENSITIVE, LOW_FREQUENCY)))
    /\ strategyArgs.frequency = 1 /\ strategyArgs.timeRes = 1 /\ strategyArgs.frequencyRes = 1
    /\ strategy = StrategyCtor(GENERIC_TELESCOPE, ROBUST, 0, 0, 0)

\* the StrategyFlags constants other than NONE that the facade defines
DefinedFlags ==
    {LOW_FREQUENCY, HIGH_FREQUENCY, TRANSIENTS, ROBUST, FAST, OFF_AXIS_SOURCES,
     UNSENSITIVE, SENSITIVE, GUI_FRIENDLY, CLEAR_FLAGS}

\* the bit of the flag is set in the flag word
BitSet(flags, flag) == (flags \div flag) % 2 = 1

-----------------------------------------------------------------------------
(* Claims on ImageSet objects *)

\* C4: every ImageSet that exists holds 1, 2, 4 or 8 images, whatever sequence
\* of MakeImageSet, copy construction, assignment, destruction and pixel
\* writes led to it, and a MakeImageSet with any other count threw and left no
\* ImageSet behind.
C4_ImageCountValid ==
    /\ \A s \in Slots : Live(s) => ImageCount(s) \in {1, 2, 4, 8}
    /\ (lastCall.op = "MakeImageSet" /\ lastCall.count \notin {1, 2, 4, 8}) =>
            (lastCall.threw /\ ~Live(lastCall.slot))
    /\ (lastCall.op = "MakeImageSet" /\ lastCall.count \in {1, 2, 4, 8}) =>
            (~lastCall.threw /\ Live(lastCall.slot) /\ ImageCount(lastCall.slot) = lastCall.count)

\* MakeImageSet with count 3 has just thrown while an ImageSet of 8 images lives
C4_Witness ==
    /\ lastCall.op = "MakeImageSet" /\ lastCall.count = 3 /\ lastCall.threw
    /\ \E s \in Slots : Live(s) /\ ImageCount(s) = 8

-----------------------------------------------------------------------------
(* Claims on Run *)

\* the flags of the FlagMask a returned call holds
Flags(r) == r.msks[r.result.mask]

EnteredRun(r) == r.pc \in {"running", "plotting", "performed", "returned", "threw"}

\* C1: a call that has returned, with another call before it, after it or
\* between its steps on the same Strategy and an ImageSet of its own, holds
\* the FlagMask (flags, width and height) that the same call taken alone on
\* the tree as built returns.
C1_SameAsAlone ==
    \A t \in Threads :
        run[t].pc = "returned" =>
            /\ alone[t].r.pc = "returned"
            /\ Flags(alone[t].r) = Flags(run[t])
            /\ alone[t].r.result.width = run[t].result.width
            /\ alone[t].r.result.height = run[t].result.height

\* both calls have returned, the second was called while the first was inside
\* Run, and their masks differ
C1_Witness ==
    /\ run[1].pc = "returned" /\ run[2].pc = "returned"
    /\ run[2].beside
    /\ Flags(run[1]) # {} /\ Flags(run[2]) = {}

\* C2: two calls are never inside the update of the plot counters at the
\* same time.
C2_UpdatesSerialized ==
    ~(run[1].pc = "plotting" /\ run[2].pc = "plotting")

\* both calls are inside the update, each under the lock of its own mutex
C2_BothInUpdate ==
    /\ run[1].pc = "plotting" /\ run[2].pc = "plotting"
    /\ run[1].art.mutex # run[2].art.mutex

\* C3: a call on an ImageSet of 1, 2, 4 or 8 images performs the root once,
\* on artifacts made for it (original and contaminated the input data under
\* an all-false mask, sensitivity 1), and the FlagMask it returns is a mask
\* object of its own with the flags of the contaminated data's single mask
\* at the root's return and the width and height of the ImageSet.
C3_RunResult ==
    \A t \in Threads :
        /\ EnteredRun(run[t]) => run[t].performs = 1 /\ run[t].count \in {1, 2, 4, 8}
        /\ (run[t].pc = "running" /\ run[t].stack = <<Frame(Root, 1, 1, NoObject)>>) =>
                /\ run[t].art.contaminated = run[t].art.original
                /\ run[t].art.original.images = run[t].input
                /\ SingleMask(run[t], run[t].art.contaminated) = {}
                /\ run[t].art.sensitivity = 1
        /\ run[t].pc = "returned" =>
                /\ Flags(run[t]) = SingleMask(run[t], run[t].art.contaminated)
                /\ run[t].result.mask \notin Range(run[t].art.contaminated.masks)
                /\ run[t].result.width = run[t].width
                /\ run[t].result.height = run[t].height
                /\ run[t].stack = <<>>

\* a call on 8 images has returned a mask with flags that is not all flags
C3_Witness ==
    /\ run[1].pc = "returned" /\ run[1].count = 8
    /\ Flags(run[1]) # {}
    /\ SingleMask(run[1], run[1].art.original) = {}

\* C5 as stated: when a client asks for 3 images, the failure is Run's.
C5_RunFailsOnThree ==
    \A t \in Threads :
        (run[t].count = 3 /\ run[t].error # NoObject) => run[t].error.raisedBy = "Run"

\* C5: a client that asks for a count other than 1, 2, 4 or 8 gets the
\* error from MakeImageSet; it has no ImageSet, Run is not entered and the
\* root is not performed.
C5_NoImageSetOfThree ==
    \A t \in Threads :
        (run[t].count \notin {0, 1, 2, 4, 8}) =>
            /\ run[t].pc = "rejected"
            /\ run[t].error = [raisedBy |-> "MakeImageSet"]
            /\ run[t].performs = 0
            /\ run[t].art = NoObject /\ run[t].stack = <<>> /\ run[t].input = <<>>

\* MakeImageSet has thrown on a count of 3 with the Strategy built
C5_Witness ==
    /\ Built
    /\ run[1].count = 3 /\ run[1].pc = "rejected"

\* C6 as stated: a failure of an action is reported to the listener and Run returns.
C6_ReportedAndReturned ==
    \A t \in Threads :
        (run[t].error # NoObject /\ run[t].pc # "rejected") =>
            run[t].pc = "returned" /\ run[t].listener # <<>>

\* C6: a failure of an action leaves Run as an exception: nothing is
\* reported to the listener, Run does not return and there is no FlagMask.
C6_ErrorEscapesRun ==
    \A t \in Threads :
        (run[t].error # NoObject /\ run[t].pc # "rejected") =>
            /\ run[t].pc = "threw"
            /\ run[t].listener = <<>>
            /\ run[t].result = NoObject
            /\ run[t].performs = 1

\* the StatisticalFlagAction has thrown after flags were found
C6_Witness ==
    /\ run[1].pc = "threw"
    /\ run[1].error = [raisedBy |-> "StatisticalFlagAction"]
    /\ SingleMask(run[1], run[1].art.contaminated) # {}

\* C7: whatever calls of Run took place or are under way, the tree is the
\* tree MakeStrategy built: the same actions in the same order with the same
\* configuration.
C7_TreeUnchanged == Built => strategy = BuiltTree

\* a second call has returned on a tree with ROBUST's four iterations
C7_Witness ==
    /\ Built /\ run[1].pc = "returned" /\ plotCounters = 2
    /\ strategy[TheIteration].iterationCount = 4

\* C8: from the call of Run on, the original data are the data Run
\* installed (the input's image pointers, the all-false mask), that mask
\* holds no flag, and the pixels of the input images are as they were.
C8_OriginalUntouched ==
    \A t \in Threads :
        EnteredRun(run[t]) =>
            /\ run[t].art.original = run[t].entry.data
            /\ run[t].msks[run[t].entry.mask] = {}
            /\ \A i \in 1 .. Len(run[t].input) : run[t].imgs[run[t].input[i]] = run[t].entry.images[i]

\* a call on a strong sample has returned flags: the contaminated data hold
\* another mask than the one they were installed with, and images were made
C8_Witness ==
    /\ run[1].pc = "returned" /\ Flags(run[1]) # {}
    /\ run[1].art.contaminated.masks # run[1].art.original.masks
    /\ Len(run[1].imgs) > run[1].count + 1
    /\ run[1].entry.images[1][<<0, 0>>] = 8

-----------------------------------------------------------------------------
(* Claims on the order of the actions within a run *)

\* the actions without children of one round of the Iteration block, in the
\* order of the tree
RoundOfTheTree ==
    <<"SumThresholdAction", "FrequencySelectionAction">>
    \o (IF HasFlag(strategyArgs.strategyFlags, TRANSIENTS) THEN <<>> ELSE <<"TimeSelectionAction">>)
    \o <<"SetImageAction", "HighPassFilterAction">>

\* the round of the Iteration block the call is in has performed its last action
RoundComplete(r) ==
    /\ r.pc = "running"
    /\ r.stack # <<>>
    /\ strategy[Top(r).node].kind = "IterationBlock"
    /\ Top(r).next > Len(strategy[Top(r).node].children)

\* C15 as stated: within a round of the iteration, a SumThreshold is
\* performed only after the high-pass fit of that round, and a
\* FrequencySelection or TimeSelection only after its SumThreshold.
C15_FitBeforeDetection ==
    \A i \in 1 .. Len(run[1].pass) :
        /\ run[1].pass[i] = "SumThresholdAction" =>
              \E j \in 1 .. (i - 1) : run[1].pass[j] = "HighPassFilterAction"
        /\ run[1].pass[i] \in {"FrequencySelectionAction", "TimeSelectionAction"} =>
              \E j \in 1 .. (i - 1) : run[1].pass[j] = "SumThresholdAction"

\* C15: within every round of the iteration the actions are performed in the
\* order SumThreshold, FrequencySelection, TimeSelection (where the tree has
\* one), SetImage, HighPassFilter: the detection comes first, the flag
\* combination next, and the high-pass fit last, so that a fit comes before
\* the detection of the following round, not of its own.
C15_DetectionBeforeFit ==
    /\ run[1].pass # <<>> => Built
    /\ Built =>
          /\ Len(run[1].pass) <= Len(RoundOfTheTree)
          /\ run[1].pass = SubSeq(RoundOfTheTree, 1, Len(run[1].pass))
          /\ RoundComplete(run[1]) => run[1].pass = RoundOfTheTree

\* the second round of a run is complete: its SumThreshold came first and
\* its HighPassFilter last
C15_Witness ==
    /\ RoundComplete(run[1])
    /\ Top(run[1]).round = 1
    /\ run[1].pass[1] = "SumThresholdAction"
    /\ run[1].pass[Len(run[1].pass)] = "HighPassFilterAction"

-----------------------------------------------------------------------------
(* Claims on the StatisticalFlagAction and on the SIR operator *)

ContaminatedFlags(r) == SingleMask(r, r.art.contaminated)

\* C19: a step that performs a StatisticalFlagAction leaves every sample
\* flagged that was flagged in the single mask of the contaminated data
\* before it, whatever the masks, the enlarge sizes and the ratios.
C19_StatisticalFlagSuperset ==
    [][\A t \in Threads :
          AtStatisticalFlag(run[t], strategy) =>
              ContaminatedFlags(run[t]) \subseteq ContaminatedFlags(run'[t])]_vars

\* a StatisticalFlagAction that enlarges by one sample in time has been
\* performed on data of two masks that held flags in different samples; the
\* one mask it set holds them and more, and not all samples
C19_Witness ==
    /\ run[1].pc = "performed"
    /\ strategy # NoStrategy /\ strategy[2].kind = "StatisticalFlagAction"
    /\ strategy[2].enlargeTimeSize = 1 /\ strategy[2].minimumGoodTimeRatioTenths = 10
    /\ Len(run[1].msks) = 4
    /\ run[1].msks[2] = {<<0, 1>>} /\ run[1].msks[3] = {<<0, 0>>}
    /\ run[1].art.contaminated.masks = <<4>>
    /\ run[1].msks[4] = {<<0, 0>>, <<1, 0>>, <<0, 1>>, <<1, 1>>}

Applied(n) == sir # NoObject /\ Len(sir.results) >= n

\* C20 as stated: for every strip and every ratio, the SIR operator applied
\* to its own result gives the strip that one application gave.
C20_SIRIdempotent == Applied(2) => sir.results[2] = sir.results[1]

\* C20: for every strip and every ratio, one application of the SIR operator
\* keeps every flag of the strip, an application to the result keeps every
\* flag of the result, and it gives the same strip when the ratio is 0 or 1.
C20_SIRExtensive ==
    /\ Applied(1) => FlaggedOf(sir.strip) \subseteq FlaggedOf(sir.results[1])
    /\ \A n \in 2 .. MaxApplications + 1 :
          Applied(n) =>
              /\ FlaggedOf(sir.results[n - 1]) \subseteq FlaggedOf(sir.results[n])
              /\ sir.ratioTenths \in {0, 10} => sir.results[n] = sir.results[n - 1]

\* under the ratio 0.5 the strip flagged in its first sample of three has
\* gained the second sample by one application and the third by the next
C20_Witness ==
    /\ Applied(2)
    /\ sir.strip = <<TRUE, FALSE, FALSE>> /\ sir.ratioTenths = 5
    /\ sir.results[1] = <<TRUE, TRUE, FALSE>>
    /\ sir.results[2] = <<TRUE, TRUE, TRUE>>

\* C21 as stated: for every strip and ratios eta1 <= eta2, the operator under eta2
\* flags every sample it flags under eta1.
C21_SIRMonotone ==
    (Applied(1) /\ sir.other # NoObject /\ sir.ratioTenths <= sir.other.ratioTenths) =>
        FlaggedOf(sir.results[1]) \subseteq FlaggedOf(sir.other.result)

\* the strip with its first sample of two flagged is all flagged under the
\* ratio 0.5 and keeps its second sample unflagged under the ratio 1
C21_Witness ==
    /\ Applied(1) /\ sir.other # NoObject
    /\ sir.strip = <<TRUE, FALSE>>
    /\ sir.ratioTenths = 5 /\ sir.results[1] = <<TRUE, TRUE>>
    /\ sir.other.ratioTenths = 10 /\ sir.other.result = <<TRUE, FALSE>>

Summed == sir # NoObject /\ sir.sums # NoObject

\* C22 as stated: a sample has an interval around it with a flagged fraction
\* >= eta iff the maximum sum of f(j) = eta - x_j over the intervals around it is >= 0.
C22_SameOperatorAsStated ==
    (Applied(1) /\ Summed) =>
        \A i \in 1 .. Len(sir.strip) : sir.results[1][i] <=> sir.sums.ofRatioLessFlag[i] >= 0

\* C22: a sample has an interval around it with a flagged fraction >= eta iff
\* the maximum sum of f(j) = x_j - eta over the intervals around it is >= 0.
C22_SameOperator ==
    (Applied(1) /\ Summed) =>
        \A i \in 1 .. Len(sir.strip) : sir.results[1][i] <=> sir.sums.ofFlagLessRatio[i] >= 0

\* under the ratio 0.5 the second sample of (1,0,0) is flagged and the third
\* is not: the sums of x - eta around them are 0 and -0.5, those of eta - x are 1 and 1
C22_Witness ==
    /\ Applied(1) /\ Summed
    /\ sir.strip = <<TRUE, FALSE, FALSE>> /\ sir.ratioTenths = 5
    /\ sir.results[1] = <<TRUE, TRUE, FALSE>>
    /\ sir.sums.ofFlagLessRatio = <<5, 0, -5>>
    /\ sir.sums.ofRatioLessFlag = <<5, 10, 10>>

-----------------------------------------------------------------------------
(* Claims on the blocks, on the facade's objects and on the ImageWidget *)

\* the frame of the IterationBlock on the stack of the call
IterationFrame(r) ==
    r.stack[CHOOSE k \in 1 .. Len(r.stack) : strategy[r.stack[k].node].kind = "IterationBlock"]

\* C23: the rounds of an IterationBlock with count N begin with the indices
\* 0, 1, ... in increasing order, at most N of them, round i under the
\* sensitivity start * 2^(-i), which falls from round to round; the children
\* are performed once in every round; after N rounds the block is left and
\* the sensitivity is the one it was entered with.
C23_IterationRounds ==
    (Built /\ run[1].rounds # <<>>) =>
        LET r == run[1]
            it == BuiltTree[TheIteration]
        IN  /\ Len(r.rounds) <= it.iterationCount
            /\ \A k \in 1 .. Len(r.rounds) :
                  /\ r.rounds[k].i = k - 1
                  /\ r.rounds[k].sensitivity * Pow2(k - 1) = it.sensitivityStart
                  /\ k > 1 => r.rounds[k].sensitivity < r.rounds[k - 1].sensitivity
            /\ InIteration(r, strategy) =>
                  /\ IterationFrame(r).round = Len(r.rounds) - 1
                  /\ r.art.sensitivity = r.rounds[Len(r.rounds)].sensitivity
            /\ RoundComplete(r) => r.pass = RoundOfTheTree
            /\ ~InIteration(r, strategy) =>
                  /\ Len(r.rounds) = it.iterationCount
                  /\ r.art.sensitivity = 1

\* a call on a tree built with ROBUST has left the IterationBlock after the
\* rounds 0 to 3 under the sensitivities 8, 4, 2 and 1
C23_Witness ==
    /\ Built /\ run[1].pc = "running" /\ ~InIteration(run[1], strategy)
    /\ run[1].rounds = <<[i |-> 0, sensitivity |-> 8], [i |-> 1, sensitivity |-> 4],
                         [i |-> 2, sensitivity |-> 2], [i |-> 3, sensitivity |-> 1]>>

\* the rows seen through the object
RowsOf(s) == statistics.impls[ImplementationOf(s)].rows

\* C24: two threads inside CollectStatistics on two QualityStatistics objects
\* never write the same statistics collection, and a CollectStatistics call
\* leaves the rows seen through every other object as they were.
C24_SeparateCollections ==
    [][/\ \A t \in Threads, u \in Threads :
             (t # u /\ statistics.collecting[t] # NoObject /\ statistics.collecting[u] # NoObject) =>
                 statistics.collecting[t].implementation # statistics.collecting[u].implementation
       /\ \A t \in Threads :
             CollectEnd(t) =>
                 \A o \in QSlots \ {statistics.collecting[t].object} :
                     LiveStatistics(o) => RowsOf(o)' = RowsOf(o)]_vars

\* the two threads are inside CollectStatistics, one on an object and one on
\* a copy of it, and write the one collection the two objects share
C24_Witness ==
    /\ statistics.collecting[1] # NoObject /\ statistics.collecting[2] # NoObject
    /\ statistics.collecting[1].object # statistics.collecting[2].object
    /\ statistics.collecting[1].implementation = statistics.collecting[2].implementation
    /\ statistics.impls[statistics.collecting[1].implementation].torn

\* C27: every live Strategy object points to a holder that was not deleted
\* and that no other Strategy object points to, and no holder was deleted twice.
C27_HoldersOwned ==
    /\ \A h \in 1 .. Len(strategies.holders) : strategies.holders[h].deletes <= 1
    /\ \A s \in SSlots :
          LiveStrategy(s) =>
              /\ strategies.holders[HolderOf(s)].deletes = 0
              /\ \A o \in SSlots \ {s} : LiveStrategy(o) => HolderOf(o) # HolderOf(s)

\* a Strategy was copied and both objects were destroyed: the one holder was
\* deleted twice
C27_Witness ==
    /\ Len(strategies.holders) = 1
    /\ strategies.holders[1].deletes = 2
    /\ \A s \in SSlots : ~LiveStrategy(s)

\* the images an ImageSet refers to, as read through it
ImagesThrough(sets, heap, s) == [i \in 1 .. Len(sets[s].images) |-> heap[sets[s].images[i]]]

\* C25: after a copy construction or an assignment the two ImageSets hold the
\* same image pointers, so the same count, width and height as the source
\* had; a pixel written through an ImageSet is read through every ImageSet
\* that holds the same pointers; the destruction of an ImageSet leaves the
\* images of every other ImageSet as they were.
C25_CopiesShareImages ==
    [][/\ \A dst \in Slots, src \in Slots :
             (CopyImageSet(dst, src) \/ AssignImageSet(dst, src)) =>
                 /\ imageSets'[dst].images = imageSets'[src].images
                 /\ ImagesThrough(imageSets', imageHeap', dst) = ImagesThrough(imageSets, imageHeap, src)
                 /\ \A i \in 1 .. Len(imageSets'[dst].images) : imageHeap'[imageSets'[dst].images[i]] # NoObject
       /\ \A s \in Slots :
             WritePixel(s) =>
                 \A o \in Slots :
                     (Live(o) /\ imageSets[o].images = imageSets[s].images) =>
                         /\ ImagesThrough(imageSets', imageHeap', o) = ImagesThrough(imageSets', imageHeap', s)
                         /\ ImagesThrough(imageSets', imageHeap', o) # ImagesThrough(imageSets, imageHeap, o)
       /\ \A s \in Slots :
             DestroyImageSet(s) =>
                 \A o \in Slots \ {s} :
                     Live(o) =>
                         /\ imageSets'[o] # NoObject
                         /\ ImagesThrough(imageSets', imageHeap', o) = ImagesThrough(imageSets, imageHeap, o)
                         /\ \A i \in 1 .. Len(imageSets'[o].images) : imageHeap'[imageSets'[o].images[i]] # NoObject]_vars

\* two ImageSets hold the same two images, the last of them written to, and
\* no other image lives
C25_Witness ==
    /\ \A s \in Slots : Live(s) /\ ImageCount(s) = 2
    /\ imageSets[1].images = imageSets[2].images
    /\ imageHeap[imageSets[1].images[2]].pixels[<<0, 0>>] # imageHeap[imageSets[1].images[1]].pixels[<<0, 0>>]
    /\ \A h \in Handles : imageHeap[h] # NoObject => h \in Range(imageSets[1].images)

\* the StatisticalFlagAction the call is about to perform
TheStatisticalFlag(r) == strategy[NextChild(r, strategy)]

\* C26: a step that performs a StatisticalFlagAction leaves the contaminated
\* data with one mask, which holds the single mask they had, dilated by the
\* enlarge sizes, then passed through the SIR operator along the rows under
\* the time ratio, then along the columns under the frequency ratio.
C26_DilateRowsColumns ==
    [][\A t \in Threads :
          AtStatisticalFlag(run[t], strategy) =>
              /\ Len(run'[t].art.contaminated.masks) = 1
              /\ run'[t].msks[run'[t].art.contaminated.masks[1]] =
                     OperateVertically(
                         OperateHorizontally(
                             DilateFlags(ContaminatedFlags(run[t]), run[t].width, run[t].height,
                                         TheStatisticalFlag(run[t]).enlargeTimeSize,
                                         TheStatisticalFlag(run[t]).enlargeFrequencySize),
                             run[t].width, run[t].height,
                             TheStatisticalFlag(run[t]).minimumGoodTimeRatioTenths),
                         run[t].width, run[t].height,
                         TheStatisticalFlag(run[t]).minimumGoodFrequencyRatioTenths)]_vars

\* a flag at either end of a diagonal, no dilation, a time ratio of 0.6 and
\* a frequency ratio of 0.5: neither row has spread and then both columns
\* have, where passing the columns first would have flagged every sample
C26_Witness ==
    /\ run[1].pc = "performed"
    /\ strategy # NoStrategy /\ strategy[2].kind = "StatisticalFlagAction"
    /\ strategy[2].enlargeTimeSize = 0 /\ strategy[2].enlargeFrequencySize = 0
    /\ strategy[2].minimumGoodTimeRatioTenths = 6 /\ strategy[2].minimumGoodFrequencyRatioTenths = 5
    /\ Len(run[1].msks) = 3
    /\ run[1].msks[2] = {<<0, 0>>, <<2, 1>>}
    /\ run[1].msks[3] = {<<0, 0>>, <<0, 1>>, <<2, 0>>, <<2, 1>>}
    /\ run[1].art.contaminated.masks = <<3>>

\* C29: a step that performs a StatisticalFlagAction leaves the flags of
\* every mask object that existed before it as they were, so also those of
\* the mask the contaminated data held; the original and the revised data,
\* and the images of the contaminated data, are as before; the contaminated
\* data hold a mask object that did not exist before.
C29_WorksOnPrivateCopy ==
    [][\A t \in Threads :
          AtStatisticalFlag(run[t], strategy) =>
              /\ \A m \in 1 .. Len(run[t].msks) : run'[t].msks[m] = run[t].msks[m]
              /\ run'[t].art.original = run[t].art.original
              /\ run'[t].art.revised = run[t].art.revised
              /\ run'[t].art.contaminated.images = run[t].art.contaminated.images
              /\ run'[t].imgs = run[t].imgs
              /\ run'[t].art.contaminated.masks = <<Len(run[t].msks) + 1>>]_vars

\* the original, the revised and the contaminated data shared a mask with one
\* flag; the action has flagged every sample of a mask of its own, and the
\* original and the revised data still hold the shared mask with its one flag
C29_Witness ==
    /\ run[1].pc = "performed"
    /\ strategy # NoStrategy /\ strategy[2].kind = "StatisticalFlagAction"
    /\ Len(run[1].msks) = 2
    /\ run[1].msks[1] = {<<0, 0>>}
    /\ run[1].msks[2] = Pixels(run[1].width, run[1].height)
    /\ run[1].art.original.masks = <<1>>
    /\ run[1].art.revised.masks = <<1>>
    /\ run[1].art.contaminated.masks = <<2>>
    /\ run[1].entry.mask = 1

\* C28: when Run returns on a Strategy built without CLEAR_FLAGS, the same
\* call on the Strategy built of the same telescope and flags with
\* CLEAR_FLAGS has returned too, with the same flags in a mask of the same
\* width and height.
C28_ClearFlagsSameResult ==
    run[1].pc = "returned" =>
        /\ alone[1] # NoObject
        /\ alone[1].r.pc = "returned"
        /\ Flags(alone[1].r) = Flags(run[1])
        /\ alone[1].r.result.width = run[1].result.width
        /\ alone[1].r.result.height = run[1].result.height

\* Run has returned flags on a tree that ends with SetFlagging(OrOriginal),
\* and beside it on a tree without that action
C28_Witness ==
    /\ run[1].pc = "returned"
    /\ strategyArgs.strategyFlags = NONE
    /\ Flags(run[1]) # {}
    /\ \E n \in DOMAIN strategy : strategy[n].kind = "SetFlaggingAction" /\ strategy[n].newFlagging = "OrOriginal"
    /\ alone[1] # NoObject
    /\ \A n \in DOMAIN alone[1].tree :
          alone[1].tree[n].kind = "SetFlaggingAction" => alone[1].tree[n].newFlagging # "OrOriginal"
    /\ Len(alone[1].tree) = Len(strategy) - 1

\* C30: in every state of an ImageWidget that is zoomed in any order, the
\* zoom window lies inside the image and is not empty:
\* 0 <= _startHorizontal < _endHorizontal <= 1 and
\* 0 <= _startVertical < _endVertical <= 1.
C30_ZoomWindowInsideNonEmpty ==
    /\ 0 <= widget.startHorizontal /\ widget.startHorizontal < widget.endHorizontal
    /\ widget.endHorizontal <= One
    /\ 0 <= widget.startVertical /\ widget.startVertical < widget.endVertical
    /\ widget.endVertical <= One

\* the window has been zoomed in on the middle of the image until its
\* horizontal bounds are both 0.5
C30_Witness ==
    /\ widget.startHorizontal = One \div 2
    /\ widget.endHorizontal = One \div 2

=============================================================================
